---- MODULE Spec2Model ----
(***************************************************************************)
(* libssha: the agent-wide key store (KeyManager), its passphrase lock     *)
(* with brute-force back-off, and the per-connection Session dispatcher.   *)
(*                                                                         *)
(* Byte strings (public-key blobs, passphrases, host keys, session ids)    *)
(* are modelled by small identifiers; the empty byte string is "".         *)
(* Time is steady_clock in whole seconds.  A 64-bit time_point that was    *)
(* computed as  base + seconds(wait)  is kept as the pair [base, wait].    *)
(***************************************************************************)
EXTENDS Integers, Sequences, FiniteSets, TLC

\* ---------------------------------------------------------------- bounds
MaxTime     == 1      \* the clock stops ticking here in Spec
BackoffTime == 6      \* the clock stops ticking here in SpecBackoff
StorePubs   == 3      \* distinct blobs in SpecStore
StoreTime   == 2      \* the clock stops ticking here in SpecStore
MaxAttempts == 2      \* cap on m_failed_attempts in Spec
BigAttempts == 39     \* cap on m_failed_attempts in SpecBackoff
MaxBindings == 1      \* cap on the length of m_session_bindings
BindChain   == 2      \* cap on the length of m_session_bindings in SpecBind
MaxHanded   == 2      \* frames one connection hands to process() in SpecAsync
MaxHopKeys  == 3      \* cap on the length of a hop's key list in SpecDest
MaxMpintLen == 3      \* cap on the length of an mpint's byte string in SpecCodec
MaxChunks == 3        \* cap on the number of chunks a frame arrives in, in SpecCodec
ExpiryTime  == 2      \* the clock stops ticking here in SpecExpiry
ShortLife   == 1      \* the shorter of the two key lifetimes

\* ------------------------------------------------------- program constants
IntMax == 2147483647
IntMin == -2147483647 - 1
InitialLockedUntilOffset == -10
BackoffThreshold == 2

\* ------------------------------------------------------------ input domains
Pubs        == {1, 2}          \* public-key blobs of Spec
Passphrases == {"pw", "bad"}
NoData      == "none"            \* empty m_locked_data / no verifier stored
RegisteredKeyTypes == {"ssh-ed25519"}   \* one registered family stands for all
Sessions    == {1}

\* What an out-of-range double -> int conversion yields on the build at hand
\* (x86 cvttsd2si: INT_MIN, saturating targets: INT_MAX).
CastOutcome == {"min", "max"}

VARIABLES now, km, sess, last, crashed

vars == <<now, km, sess, last, crashed>>

\* ------------------------------------------------------------ time points
\* std::chrono time_point  base + seconds(wait), and  t < tp.
TimePoint(base, wait) == [base |-> base, wait |-> wait]

\* The comparison turned around.
BeforeReversed(t, tp) == t - tp.base > tp.wait

Before(t, tp) == t - tp.base < tp.wait

\* ------------------------------------------------------------------- keys
\* A private key as KeyBase + BotanLock hold it: priv is "m_priv_key is
\* set", locked_data is the passphrase m_locked_data is encrypted under.
NewKey(pub, comment) ==
    [pub |-> pub, comment |-> comment, lifetime |-> 0, added |-> 0,
     confirm |-> FALSE, dest |-> <<>>, priv |-> TRUE, locked_data |-> NoData]

NoKey == [pub |-> 0, comment |-> "", lifetime |-> 0, added |-> 0,
          confirm |-> FALSE, dest |-> <<>>, priv |-> FALSE, locked_data |-> NoData]

PubsOf(keys) == [i \in 1..Len(keys) |-> keys[i].pub]

\* An expiry test that lets a key live one second past its lifetime.
expiredAfterLifetime(k, t) ==
    IF k.lifetime = 0 THEN FALSE ELSE t - k.added > k.lifetime

\* KeyBase::expired
expired(k, t) == IF k.lifetime = 0 THEN FALSE ELSE t - k.added >= k.lifetime

\* KeyBase::setLifetime
setLifetime(k, seconds, t) == [k EXCEPT !.lifetime = seconds, !.added = t]

\* Ed25519Key::lock (and the other families): protectData, then reset.
KeyLock(k, pw) == [k EXCEPT !.priv = FALSE, !.locked_data = pw]

\* BotanLock::unprotectData: PKCS8::load_key returns the key exactly on data
\* protected under pw, and throws on anything else (empty data included).
CanUnprotect(k, pw) == k.locked_data = pw

\* An unlock that reports success without restoring the private key.
KeyUnlockRestoresNothing(k) == k

\* Ed25519Key::unlock on data that unprotects.
KeyUnlock(k) == [k EXCEPT !.priv = TRUE]

\* ----------------------------------------------------------- observer log
\* One entry per callback: its name, the key it carries (or its blob for
\* onKeyRemoved's fingerprint) and the store's blobs at the moment of the call.
Ev(name, key, keys) == [e |-> name, key |-> key, store |-> PubsOf(keys)]

\* std::vector::erase at position i
Erase(seq, i) == SubSeq(seq, 1, i - 1) \o SubSeq(seq, i + 1, Len(seq))

\* KeyManager::findKey: position of the first key with that blob, 0 = end().
findKey(keys, blob) ==
    IF \E i \in 1..Len(keys) : keys[i].pub = blob
    THEN CHOOSE i \in 1..Len(keys) :
            /\ keys[i].pub = blob
            /\ \A j \in 1..(i - 1) : keys[j].pub # blob
    ELSE 0

\* KeyManager::getKey
getKey(keys, blob) ==
    IF findKey(keys, blob) = 0 THEN NoKey ELSE keys[findKey(keys, blob)]

\* ------------------------------------------------ KeyManager: the key store
\* A private-key blob offered to addKey: its key type, the public part it
\* carries, whether the private part is well formed, and the comment.
KeyInput(type, pub, privOK, comment) ==
    [type |-> type, pub |-> pub, privOK |-> privOK, comment |-> comment]

\* An add that leaves the old entry in the store.
addKeyKeepsOld(keys, in) ==
    IF in.type \notin RegisteredKeyTypes \/ ~in.privOK
    THEN [keys |-> keys, threw |-> TRUE]
    ELSE [keys |-> Append(keys, NewKey(in.pub, in.comment)), threw |-> FALSE]

\* An add that overwrites the old entry where it stands.
addKeyInPlace(keys, in) ==
    IF in.type \notin RegisteredKeyTypes \/ ~in.privOK
    THEN [keys |-> keys, threw |-> TRUE]
    ELSE IF \E i \in 1..Len(keys) : keys[i].pub = in.pub
         THEN [keys  |-> [i \in 1..Len(keys) |->
                            IF keys[i].pub = in.pub
                            THEN NewKey(in.pub, in.comment) ELSE keys[i]],
               threw |-> FALSE]
         ELSE [keys |-> Append(keys, NewKey(in.pub, in.comment)), threw |-> FALSE]

\* KeyManager::addKey(type, blob, comment): extractPubKey throws on an
\* unregistered type; an existing key with the blob is erased; createKey
\* throws on private material it cannot load; the new key is pushed back.
addKey(keys, in) ==
    IF in.type \notin RegisteredKeyTypes
    THEN [keys |-> keys, threw |-> TRUE]
    ELSE LET it   == findKey(keys, in.pub)
             kept == IF it # 0 THEN Erase(keys, it) ELSE keys
         IN  IF ~in.privOK
             THEN [keys |-> kept, threw |-> TRUE]
             ELSE [keys |-> Append(kept, NewKey(in.pub, in.comment)),
                   threw |-> FALSE]

\* An add by message that announces the key before it sets the attributes.
addKeyMsgAnnouncesEarly(keys, msg, t) ==
    LET r == addKey(keys, msg.key)
    IN  IF r.threw
        THEN [keys |-> r.keys, ev |-> <<>>, threw |-> TRUE]
        ELSE LET n  == Len(r.keys)
                 k1 == IF msg.lifetime > 0
                       THEN setLifetime(r.keys[n], msg.lifetime, t) ELSE r.keys[n]
                 k3 == [k1 EXCEPT !.confirm = msg.confirm, !.dest = msg.dest]
             IN  [keys |-> [r.keys EXCEPT ![n] = k3],
                  ev |-> <<Ev("onKeyAdded", r.keys[n], r.keys)>>,
                  threw |-> FALSE]

\* KeyManager::addKey(AddIdentityMessage&)
addKeyMsg(keys, msg, t) ==
    LET r == addKey(keys, msg.key)
    IN  IF r.threw
        THEN [keys |-> r.keys, ev |-> <<>>, threw |-> TRUE]
        ELSE LET n  == Len(r.keys)
                 k0 == r.keys[n]
                 k1 == IF msg.lifetime > 0
                       THEN setLifetime(k0, msg.lifetime, t) ELSE k0
                 k2 == [k1 EXCEPT !.confirm = msg.confirm]
                 k3 == IF msg.ext = "restrict-destination-v00@openssh.com"
                       THEN [k2 EXCEPT !.dest = msg.dest] ELSE k2
                 ks == [r.keys EXCEPT ![n] = k3]
             IN  [keys |-> ks, ev |-> <<Ev("onKeyAdded", k3, ks)>>,
                  threw |-> FALSE]

\* A remove that erases the key before it announces the removal.
removeKeyErasesFirst(keys, blob) ==
    LET it == findKey(keys, blob)
    IN  IF it = 0
        THEN [keys |-> keys, ev |-> <<>>]
        ELSE LET ks == Erase(keys, it)
             IN  [keys |-> ks,
                  ev   |-> <<Ev("onKeyPreRemove", keys[it], ks),
                             Ev("onKeyRemoved", keys[it], ks)>>]

\* KeyManager::removeKey
removeKey(keys, blob) ==
    LET it == findKey(keys, blob)
    IN  IF it = 0
        THEN [keys |-> keys, ev |-> <<>>]
        ELSE LET ks == Erase(keys, it)
             IN  [keys |-> ks,
                  ev   |-> <<Ev("onKeyPreRemove", keys[it], keys),
                             Ev("onKeyRemoved", keys[it], ks)>>]

\* A remove-all that announces each key's removal right after its pre-remove.
RECURSIVE PreThenRemoved(_, _)
PreThenRemoved(keys, i) ==
    IF i > Len(keys) THEN <<>>
    ELSE <<Ev("onKeyPreRemove", keys[i], keys), Ev("onKeyRemoved", keys[i], <<>>)>>
         \o PreThenRemoved(keys, i + 1)

removeAllKeysInterleaved(keys) ==
    [keys |-> <<>>,
     ev   |-> PreThenRemoved(keys, 1) \o <<Ev("onKeysCleared", NoKey, <<>>)>>]

\* KeyManager::removeAllKeys
removeAllKeys(keys) ==
    [keys |-> <<>>,
     ev   |-> [i \in 1..Len(keys) |-> Ev("onKeyPreRemove", keys[i], keys)]
              \o [i \in 1..Len(keys) |-> Ev("onKeyRemoved", keys[i], <<>>)]
              \o <<Ev("onKeysCleared", NoKey, <<>>)>>]

\* KeyManager::cleanupExpiredKeys: one pass over the vector, erasing in place.
RECURSIVE cleanupFrom(_, _, _, _)
cleanupFrom(keys, i, t, ev) ==
    IF i > Len(keys)
    THEN [keys |-> keys, ev |-> ev]
    ELSE IF expired(keys[i], t)
         THEN LET ks == Erase(keys, i)
              IN  cleanupFrom(ks, i, t,
                              ev \o <<Ev("onKeyPreRemove", keys[i], keys),
                                      Ev("onKeyRemoved", keys[i], ks)>>)
         ELSE cleanupFrom(keys, i + 1, t, ev)

cleanupExpiredKeys(keys, t) == cleanupFrom(keys, 1, t, <<>>)

\* ------------------------------------------------ KeyManager: the back-off
\* floor(pow(1.8, n)) computed exactly: 1.8^n = 18^n / 10^n, so the floor is
\* the decimal numeral of 18^n without its n lowest digits.  Numerals are
\* little-endian digit sequences, because 18^n does not fit a machine word.
PowBaseNum == 18
PowBaseDen == 10
SSH_AGENT_CONSTRAIN_LIFETIME == 1
SSH_AGENT_CONSTRAIN_CONFIRM == 2
SSH_AGENT_CONSTRAIN_EXTENSION == 255

RECURSIVE MulSmall(_, _, _)
MulSmall(ds, m, carry) ==
    IF ds = <<>>
    THEN IF carry = 0 THEN <<>>
         ELSE <<carry % PowBaseDen>> \o MulSmall(<<>>, m, carry \div PowBaseDen)
    ELSE LET v == Head(ds) * m + carry
         IN  <<v % PowBaseDen>> \o MulSmall(Tail(ds), m, v \div PowBaseDen)

RECURSIVE PowDigits(_)
PowDigits(n) == IF n = 0 THEN <<1>> ELSE MulSmall(PowDigits(n - 1), PowBaseNum, 0)

FloorPowDigits(n) == SubSeq(PowDigits(n), n + 1, Len(PowDigits(n)))

RECURSIVE DigitsValue(_)
DigitsValue(ds) ==
    IF ds = <<>> THEN 0 ELSE Head(ds) + PowBaseDen * DigitsValue(Tail(ds))

\* Does the numeral fit a 32-bit int (<= 2147483647)?
FitsInt(ds) ==
    \/ Len(ds) < 10
    \/ /\ Len(ds) = 10
       /\ LET hi == DigitsValue(Tail(ds))
          IN  \/ hi < IntMax \div PowBaseDen
              \/ hi = IntMax \div PowBaseDen /\ Head(ds) <= IntMax % PowBaseDen

\* static_cast<int>(floor(pow(1.8, n))): the value when it fits; out of range
\* the conversion is undefined, and yields INT_MIN or INT_MAX by the build.
wait_time(n, cast) ==
    LET ds == FloorPowDigits(n)
    IN  IF FitsInt(ds) THEN DigitsValue(ds)
        ELSE IF cast = "min" THEN IntMin ELSE IntMax

\* --------------------------------------------- KeyManager: lock and unlock
\* Result of an operation: the manager afterwards, the callbacks and
\* lock-provider calls it made, whether it threw.
Res(k, ev, threw) == [km |-> k, ev |-> ev, threw |-> threw]

\* KeyManager::lock hands *m_priv_key of every key to protectData: a key
\* without its private key makes that a null dereference.
LockDerefsNull(k) == ~k.m_locked /\ \E i \in 1..Len(k.m_keys) : ~k.m_keys[i].priv

\* A lock that does not test m_locked first.
lockUnchecked(k, pw) ==
    LET ks == [i \in 1..Len(k.m_keys) |-> KeyLock(k.m_keys[i], pw)]
    IN  Res([k EXCEPT !.m_hash = pw, !.m_keys = ks, !.m_locked = TRUE],
            <<Ev("LockProvider::lock", NoKey, k.m_keys), Ev("onLocked", NoKey, ks)>>,
            FALSE)

\* KeyManager::lock (with a lock provider installed).
lock(k, pw) ==
    IF k.m_locked
    THEN Res(k, <<>>, TRUE)
    ELSE LET ks == [i \in 1..Len(k.m_keys) |-> KeyLock(k.m_keys[i], pw)]
         IN  Res([k EXCEPT !.m_hash = pw, !.m_keys = ks, !.m_locked = TRUE],
                 <<Ev("LockProvider::lock", NoKey, k.m_keys),
                   Ev("onLocked", NoKey, ks)>>,
                 FALSE)

\* The loop  for (key : m_keys) key->unlock(passphrase)  of KeyManager::unlock:
\* position of the first key whose data does not unprotect (0: none), and
\* the keys after the loop ran or was left by the exception.
FirstStuck(keys, pw) ==
    IF \E i \in 1..Len(keys) : ~CanUnprotect(keys[i], pw)
    THEN CHOOSE i \in 1..Len(keys) :
            /\ ~CanUnprotect(keys[i], pw)
            /\ \A j \in 1..(i - 1) : CanUnprotect(keys[j], pw)
    ELSE 0

unlockKeys(keys, pw) ==
    LET stuck == FirstStuck(keys, pw)
    IN  [keys  |-> [i \in 1..Len(keys) |->
                      IF stuck = 0 \/ i < stuck
                      THEN KeyUnlock(keys[i]) ELSE keys[i]],
         threw |-> stuck # 0]

\* The catch (...) block of KeyManager::unlock.
unlockFailed(k, t, cast) ==
    LET n == k.m_failed_attempts + 1
    IN  [k EXCEPT !.m_failed_attempts = n,
                  !.m_locked_until =
                      IF n > BackoffThreshold
                      THEN TimePoint(t, wait_time(n, cast)) ELSE @]

\* KeyManager::unlock (with a lock provider installed).
unlock(k, pw, t, cast) ==
    IF ~k.m_locked
    THEN Res(k, <<>>, TRUE)
    ELSE IF Before(t, k.m_locked_until)
    THEN Res([k EXCEPT !.m_failed_attempts = @ + 1], <<>>, TRUE)
    ELSE LET verify == Ev("LockProvider::verify", NoKey, k.m_keys)
         IN  IF k.m_hash # pw
             THEN Res(unlockFailed(k, t, cast), <<verify>>, TRUE)
             ELSE LET u == unlockKeys(k.m_keys, pw)
                      k1 == [k EXCEPT !.m_keys = u.keys]
                  IN  IF u.threw
                      THEN Res(unlockFailed(k1, t, cast), <<verify>>, TRUE)
                      ELSE Res([k1 EXCEPT !.m_locked = FALSE,
                                          !.m_failed_attempts = 0],
                               <<verify, Ev("onUnlocked", NoKey, u.keys)>>,
                               FALSE)

\* --------------------------------------------- destination constraints
Hop(user, hostname, keys) == [user |-> user, hostname |-> hostname, keys |-> keys]
HopKey(key, is_ca) == [key |-> key, is_ca |-> is_ca]
Constraint(from, to) == [from |-> from, to |-> to]
NoMatchInfo == [from |-> "", to |-> "", user |-> ""]

\* A hop match that steps over an entry with an empty key.
RECURSIVE matchesKeySkipsEmpty(_, _, _)
matchesKeySkipsEmpty(hkeys, i, key) ==
    IF i > Len(hkeys) THEN FALSE
    ELSE IF hkeys[i].key = "" THEN matchesKeySkipsEmpty(hkeys, i + 1, key)
    ELSE IF hkeys[i].is_ca THEN matchesKeySkipsEmpty(hkeys, i + 1, key)
    ELSE IF hkeys[i].key # key THEN matchesKeySkipsEmpty(hkeys, i + 1, key)
    ELSE TRUE

\* OpenSSHHopDescriptor::matchesKey
RECURSIVE matchesKeyFrom(_, _, _)
matchesKeyFrom(hkeys, i, key) ==
    IF i > Len(hkeys) THEN FALSE
    ELSE IF hkeys[i].key = "" THEN FALSE
    ELSE IF hkeys[i].is_ca THEN matchesKeyFrom(hkeys, i + 1, key)
    ELSE IF hkeys[i].key # key THEN matchesKeyFrom(hkeys, i + 1, key)
    ELSE TRUE

matchesKey(hop, key) == matchesKeyFrom(hop.keys, 1, key)

\* A constraint match that takes an empty supplied user for a user of its
\* own, different from any the to-hop names.
matchesUserStrict(c, from_key, to_key, user) ==
    /\ IF from_key = ""
       THEN ~(c.from.hostname # "" \/ c.from.keys # <<>>)
       ELSE matchesKey(c.from, from_key)
    /\ ~(to_key # "" /\ ~matchesKey(c.to, to_key))
    /\ ~(c.to.user # "" /\ c.to.user # user)

\* OpenSSHSDestinationConstraint::matches
matches(c, from_key, to_key, user) ==
    /\ IF from_key = ""
       THEN ~(c.from.hostname # "" \/ c.from.keys # <<>>)
       ELSE matchesKey(c.from, from_key)
    /\ ~(to_key # "" /\ ~matchesKey(c.to, to_key))
    /\ ~(c.to.user # "" /\ user # "" /\ c.to.user # user)

\* KeyBase::permittedByConstraints: the first matching constraint decides and
\* writes the match info (when one is passed).
permittedByConstraints(dest, from_key, to_key, user, mi) ==
    IF \E i \in 1..Len(dest) : matches(dest[i], from_key, to_key, user)
    THEN LET i == CHOOSE i \in 1..Len(dest) :
                     /\ matches(dest[i], from_key, to_key, user)
                     /\ \A j \in 1..(i - 1) : ~matches(dest[j], from_key, to_key, user)
         IN  [ok |-> TRUE,
              mi |-> [from |-> dest[i].from.hostname,
                      to   |-> dest[i].to.hostname,
                      user |-> user]]
    ELSE [ok |-> FALSE, mi |-> mi]

\* A walk over the bindings that asks every hop as if it were the first.
RECURSIVE permittedWalkFromNowhere(_, _, _, _, _, _)
permittedWalkFromNowhere(dest, b, i, from_key, user, mi) ==
    IF i > Len(b) THEN [ok |-> TRUE, mi |-> mi]
    ELSE IF b[i].host_key = "" THEN [ok |-> FALSE, mi |-> mi]
    ELSE IF i = Len(b) /\ b[i].forwarded /\ user # "" THEN [ok |-> FALSE, mi |-> mi]
    ELSE IF i # Len(b) /\ ~b[i].forwarded THEN [ok |-> FALSE, mi |-> mi]
    ELSE LET r == permittedByConstraints(dest, "", b[i].host_key,
                                         IF i = Len(b) THEN user ELSE "", mi)
         IN  IF ~r.ok THEN r
             ELSE permittedWalkFromNowhere(dest, b, i + 1, b[i].host_key, user, r.mi)

\* A walk over the bindings that does not look at the forwarded flags.
RECURSIVE permittedWalkNoFlags(_, _, _, _, _, _)
permittedWalkNoFlags(dest, b, i, from_key, user, mi) ==
    IF i > Len(b) THEN [ok |-> TRUE, mi |-> mi]
    ELSE IF b[i].host_key = "" THEN [ok |-> FALSE, mi |-> mi]
    ELSE LET r == permittedByConstraints(dest, from_key, b[i].host_key,
                                         IF i = Len(b) THEN user ELSE "", mi)
         IN  IF ~r.ok THEN r
             ELSE permittedWalkNoFlags(dest, b, i + 1, b[i].host_key, user, r.mi)

\* The loop over the session bindings in KeyBase::permitted.
RECURSIVE permittedWalk(_, _, _, _, _, _)
permittedWalk(dest, b, i, from_key, user, mi) ==
    IF i > Len(b) THEN [ok |-> TRUE, mi |-> mi]
    ELSE IF b[i].host_key = "" THEN [ok |-> FALSE, mi |-> mi]
    ELSE IF i = Len(b) /\ b[i].forwarded /\ user # "" THEN [ok |-> FALSE, mi |-> mi]
    ELSE IF i # Len(b) /\ ~b[i].forwarded THEN [ok |-> FALSE, mi |-> mi]
    ELSE LET r == permittedByConstraints(dest, from_key, b[i].host_key,
                                         IF i = Len(b) THEN user ELSE "", mi)
         IN  IF ~r.ok THEN r
             ELSE permittedWalk(dest, b, i + 1, b[i].host_key, user, r.mi)

\* A permit decision that tests binding_failed before anything else.
permittedFailureFirst(k, s, user, mi) ==
    IF s.m_binding_failed THEN [ok |-> FALSE, mi |-> mi]
    ELSE IF Len(k.dest) = 0 THEN [ok |-> TRUE, mi |-> mi]
    ELSE IF Len(s.m_session_bindings) = 0 THEN [ok |-> TRUE, mi |-> mi]
    ELSE LET b == s.m_session_bindings
             w == permittedWalk(k.dest, b, 1, "", user, mi)
             l == b[Len(b)]
         IN  IF ~w.ok THEN w
             ELSE IF /\ l.forwarded /\ user = ""
                     /\ ~permittedByConstraints(k.dest, l.host_key, "", "", mi).ok
                  THEN [ok |-> FALSE, mi |-> w.mi]
                  ELSE w

\* A permit decision that does not look at the session's binding_failed.
permittedIgnoresFailure(k, s, user, mi) ==
    IF Len(k.dest) = 0 THEN [ok |-> TRUE, mi |-> mi]
    ELSE IF Len(s.m_session_bindings) = 0 THEN [ok |-> TRUE, mi |-> mi]
    ELSE LET b == s.m_session_bindings
             w == permittedWalk(k.dest, b, 1, "", user, mi)
             l == b[Len(b)]
         IN  IF ~w.ok THEN w
             ELSE IF /\ l.forwarded /\ user = ""
                     /\ ~permittedByConstraints(k.dest, l.host_key, "", "", mi).ok
                  THEN [ok |-> FALSE, mi |-> w.mi]
                  ELSE w

\* KeyBase::permitted (identity_permitted)
permitted(k, s, user, mi) ==
    IF Len(k.dest) = 0 THEN [ok |-> TRUE, mi |-> mi]
    ELSE IF s.m_binding_failed THEN [ok |-> FALSE, mi |-> mi]
    ELSE IF Len(s.m_session_bindings) = 0 THEN [ok |-> TRUE, mi |-> mi]
    ELSE LET b == s.m_session_bindings
             w == permittedWalk(k.dest, b, 1, "", user, mi)
             l == b[Len(b)]
         IN  IF ~w.ok THEN w
             ELSE IF /\ l.forwarded /\ user = ""
                     /\ ~permittedByConstraints(k.dest, l.host_key, "", "", mi).ok
                  THEN [ok |-> FALSE, mi |-> w.mi]
                  ELSE w

\* A listing that hands out every key of the store.
listKeysUnfiltered(keys, s) ==
    [i \in 1..Len(keys) |-> [blob |-> keys[i].pub, comment |-> keys[i].comment]]

\* KeyManager::listKeys
RECURSIVE listFrom(_, _, _)
listFrom(keys, i, s) ==
    IF i > Len(keys) THEN <<>>
    ELSE (IF permitted(keys[i], s, "", NoMatchInfo).ok
          THEN <<[blob |-> keys[i].pub, comment |-> keys[i].comment]>>
          ELSE <<>>) \o listFrom(keys, i + 1, s)

listKeys(keys, s) == listFrom(keys, 1, s)

\* ----------------------------------------------------------------- Session
SessionBindName == "session-bind@openssh.com"
RestrictDestinationName == "restrict-destination-v00@openssh.com"
RegisteredMessageExtensions == {SessionBindName}
RegisteredConstraintExtensions == {RestrictDestinationName}

SessionBinding(host_key, session_id, forwarded) ==
    [host_key |-> host_key, session_id |-> session_id, forwarded |-> forwarded]

\* A Session as constructed.  m_confirmation_thread and
\* m_key_selection_thread hold whether the std::thread member is joinable.
NewSession ==
    [m_session_bindings |-> <<>>, m_binding_failed |-> FALSE,
     m_is_forwarded |-> FALSE, m_match_info |-> NoMatchInfo,
     m_async_operation |-> TRUE,
     m_confirmation_thread |-> FALSE, m_key_selection_thread |-> FALSE]

\* A Session whose subclass constructor chose m_async_operation.
SessionWith(async) == [NewSession EXCEPT !.m_async_operation = async]

Reply(type, body) == [type |-> type, body |-> body]
Failure == Reply("FAILURE", <<>>)
Success == Reply("SUCCESS", <<>>)

\* What handling one frame did: the manager and the session afterwards, the
\* frames sent, the callbacks made, and whether the process died.
Out(k, s, sent, ev, crash) ==
    [km |-> k, s |-> s, sent |-> sent, ev |-> ev, crash |-> crash]

\* The embedder's answers during one request, and the outcome of the
\* out-of-range conversion.
Hooks(confirm, requires, consumed, cast) ==
    [confirm |-> confirm, requires |-> requires, consumed |-> consumed,
     cast |-> cast]

\* AddIdentityMessage::deserialize: does the frame parse, and what it holds.
AddParses(req) ==
    /\ req.key.type \in RegisteredKeyTypes
    /\ req.type = "ADD_IDENTITY_CONSTRAINED" =>
           req.ext \in RegisteredConstraintExtensions \cup {""}

AddMessage(req) ==
    IF req.type = "ADD_IDENTITY_CONSTRAINED"
    THEN [key |-> req.key, lifetime |-> req.lifetime, confirm |-> req.confirm,
          ext |-> req.ext, dest |-> req.dest]
    ELSE [key |-> req.key, lifetime |-> 0, confirm |-> FALSE,
          ext |-> "", dest |-> <<>>]

\* Session::processAddIdentity
processAddIdentity(k, s, req, t) ==
    IF ~AddParses(req)
    THEN Out(k, s, <<Failure>>, <<>>, FALSE)
    ELSE LET r == addKeyMsg(k.m_keys, AddMessage(req), t)
         IN  Out([k EXCEPT !.m_keys = r.keys], s,
                 IF r.threw THEN <<Failure>> ELSE <<Success>>, r.ev, FALSE)

\* Session::processRemoveIdentity
processRemoveIdentity(k, s, req) ==
    IF ~req.wf
    THEN Out(k, s, <<Failure>>, <<>>, FALSE)
    ELSE LET r == removeKey(k.m_keys, req.pub)
         IN  Out([k EXCEPT !.m_keys = r.keys], s, <<Success>>, r.ev, FALSE)

\* Session::processRemoveAllIdentity
processRemoveAllIdentity(k, s) ==
    LET r == removeAllKeys(k.m_keys)
    IN  Out([k EXCEPT !.m_keys = r.keys], s, <<Success>>, r.ev, FALSE)

\* UserAuthRequestMessage's constructor accepts the data to sign.
UserAuthParses(data) == data.kind = "userauth" /\ data.session_id # ""

\* A sign path that takes a session without bindings for a bound one.
UnboundNever(s) == FALSE

\* The sign path's test for a session that never bound itself.
Unbound(s) == Len(s.m_session_bindings) = 0

\* A sign path that compares with the first binding of the chain.
BoundSessionIdFirst(s) == s.m_session_bindings[1].session_id

\* m_session_bindings.back().session_id
BoundSessionId(s) == s.m_session_bindings[Len(s.m_session_bindings)].session_id

\* A confirmation test that looks at the key's flag only.
needsConfirmationKeyOnly(key, h) == key.confirm

\* The test that guards confirmRequest in Session::processSignRequest.
needsConfirmation(key, h) == key.confirm \/ h.requires

\* Session::processSignRequest, run to its end.
processSignRequest(k, s, req, h) ==
    LET key  == getKey(k.m_keys, req.pub)
        fail(s1) == Out(k, s1, <<Failure>>, <<>>, FALSE)
        p    == permitted(key, s, req.data.user, s.m_match_info)
        s1   == [s EXCEPT !.m_match_info = p.mi]
        b    == s.m_session_bindings
        s0   == IF Len(key.dest) > 0 THEN s1 ELSE s
        done == [s0 EXCEPT !.m_match_info = NoMatchInfo]
    IN  IF ~req.wf THEN fail(s)
        ELSE IF key = NoKey THEN fail(s)
        ELSE IF Len(key.dest) > 0 /\ Unbound(s) THEN fail(s)
        ELSE IF Len(key.dest) > 0 /\ ~UserAuthParses(req.data) THEN fail(s)
        ELSE IF Len(key.dest) > 0 /\ ~p.ok THEN fail(s1)
        ELSE IF /\ Len(key.dest) > 0
                /\ Len(b) > 0                 \* back() is only reached on a bound session
                /\ req.data.session_id # BoundSessionId(s)
             THEN fail(s1)
        ELSE IF needsConfirmation(key, h) /\ ~h.confirm
             THEN Out(k, done, <<Failure>>,
                      <<Ev("onKeyDeclined", key, k.m_keys)>>, FALSE)
        ELSE IF ~key.priv
             THEN Out(k, s0, <<>>, <<>>, TRUE)      \* *m_priv_key on null
        ELSE Out(k, done,
                 <<Reply("SIGN_RESPONSE", <<key.pub, req.data>>)>>,
                 <<Ev("onKeyUsed", key, k.m_keys)>>, FALSE)

\* Session::processRequestIdentities
processRequestIdentities(k, s) ==
    Out(k, s, <<Reply("IDENTITIES_ANSWER", listKeys(k.m_keys, s))>>, <<>>, FALSE)

\* ExtensionMessage::deserialize with OpenSSHSessionBind::deserialize
ExtensionParses(req) ==
    /\ req.wf
    /\ req.name \in RegisteredMessageExtensions
    /\ req.name = SessionBindName =>
           /\ req.host_key # ""
           /\ req.sig # "bad"

\* An extension path on which a successful bind clears binding_failed.
processExtensionClearsFlag(k, s, req, h) ==
    IF ~ExtensionParses(req)
    THEN Out(k, [s EXCEPT !.m_binding_failed = TRUE, !.m_session_bindings = <<>>],
             <<Failure>>, <<>>, FALSE)
    ELSE IF h.consumed THEN Out(k, s, <<Success>>, <<>>, FALSE)
    ELSE IF req.name # SessionBindName THEN Out(k, s, <<Failure>>, <<>>, FALSE)
    ELSE Out(k,
             [s EXCEPT !.m_is_forwarded = @ \/ req.forwarded,
                       !.m_binding_failed = FALSE,
                       !.m_session_bindings =
                           Append(@, SessionBinding(req.host_key, req.session_id,
                                                    req.forwarded))],
             <<Success>>, <<>>, FALSE)

\* An extension path that takes the last frame's forwarded bit for the
\* session's.
processExtensionOverwritesForwarded(k, s, req, h) ==
    IF ~ExtensionParses(req)
    THEN Out(k, [s EXCEPT !.m_binding_failed = TRUE, !.m_session_bindings = <<>>],
             <<Failure>>, <<>>, FALSE)
    ELSE IF h.consumed THEN Out(k, s, <<Success>>, <<>>, FALSE)
    ELSE IF req.name # SessionBindName THEN Out(k, s, <<Failure>>, <<>>, FALSE)
    ELSE Out(k,
             [s EXCEPT !.m_is_forwarded = req.forwarded,
                       !.m_session_bindings =
                           Append(@, SessionBinding(req.host_key, req.session_id,
                                                    req.forwarded))],
             <<Success>>, <<>>, FALSE)

\* An extension path that puts a new binding in front of the chain.
processExtensionPrepends(k, s, req, h) ==
    IF ~ExtensionParses(req)
    THEN Out(k, [s EXCEPT !.m_binding_failed = TRUE, !.m_session_bindings = <<>>],
             <<Failure>>, <<>>, FALSE)
    ELSE IF h.consumed THEN Out(k, s, <<Success>>, <<>>, FALSE)
    ELSE IF req.name # SessionBindName THEN Out(k, s, <<Failure>>, <<>>, FALSE)
    ELSE Out(k,
             [s EXCEPT !.m_is_forwarded = @ \/ req.forwarded,
                       !.m_session_bindings =
                           <<SessionBinding(req.host_key, req.session_id,
                                            req.forwarded)>> \o @],
             <<Success>>, <<>>, FALSE)

\* Session::processExtension
processExtension(k, s, req, h) ==
    IF ~ExtensionParses(req)
    THEN Out(k, [s EXCEPT !.m_binding_failed = TRUE, !.m_session_bindings = <<>>],
             <<Failure>>, <<>>, FALSE)
    ELSE IF h.consumed THEN Out(k, s, <<Success>>, <<>>, FALSE)
    ELSE IF req.name # SessionBindName THEN Out(k, s, <<Failure>>, <<>>, FALSE)
    ELSE Out(k,
             [s EXCEPT !.m_is_forwarded = @ \/ req.forwarded,
                       !.m_session_bindings =
                           Append(@, SessionBinding(req.host_key, req.session_id,
                                                    req.forwarded))],
             <<Success>>, <<>>, FALSE)

\* Session::processLock
processLock(k, s, req) ==
    IF ~req.wf THEN Out(k, s, <<Failure>>, <<>>, FALSE)
    ELSE LET r == lock(k, req.pw)
         IN  Out(r.km, s, IF r.threw THEN <<Failure>> ELSE <<Success>>, r.ev,
                 LockDerefsNull(k))

\* Session::processUnlock
processUnlock(k, s, req, t, h) ==
    IF ~req.wf THEN Out(k, s, <<Failure>>, <<>>, FALSE)
    ELSE LET r == unlock(k, req.pw, t, h.cast)
         IN  Out(r.km, s, IF r.threw THEN <<Failure>> ELSE <<Success>>, r.ev, FALSE)

\* A gate that lets extension requests through.
LockGateSparesExtensions(k, req) ==
    k.m_locked /\ req.type \notin {"UNLOCK", "EXTENSION"}

\* The lock gate at the head of Session::processReal.
LockGate(k, req) == k.m_locked /\ req.type # "UNLOCK"

\* The worker of a sign or list request, started by move-assigning a new
\* std::thread to the member named by field: std::thread::operator= calls
\* std::terminate when the member is still joinable, which it is after an
\* earlier request that was not joined.  Otherwise the worker runs to its
\* end (the transport hands over the next frame after the reply), and the
\* member stays joinable unless processReal joined it.
Worker(k, s, field, o) ==
    IF s[field]
    THEN Out(k, s, <<>>, <<>>, TRUE)
    ELSE Out(o.km, [o.s EXCEPT ![field] = s.m_async_operation], o.sent, o.ev, o.crash)

\* Session::processReal on a complete frame.
processReal(k, s, req, t, h) ==
    IF LockGate(k, req) THEN Out(k, s, <<Failure>>, <<>>, FALSE)
    ELSE IF req.type \in {"ADD_IDENTITY", "ADD_IDENTITY_CONSTRAINED"}
         THEN processAddIdentity(k, s, req, t)
    ELSE IF req.type = "REMOVE_IDENTITY" THEN processRemoveIdentity(k, s, req)
    ELSE IF req.type = "REMOVE_ALL_IDENTITIES" THEN processRemoveAllIdentity(k, s)
    ELSE IF req.type = "SIGN_REQUEST"
         THEN Worker(k, s, "m_confirmation_thread", processSignRequest(k, s, req, h))
    ELSE IF req.type = "REQUEST_IDENTITIES"
         THEN Worker(k, s, "m_key_selection_thread", processRequestIdentities(k, s))
    ELSE IF req.type = "EXTENSION" THEN processExtension(k, s, req, h)
    ELSE IF req.type = "LOCK" THEN processLock(k, s, req)
    ELSE IF req.type = "UNLOCK" THEN processUnlock(k, s, req, t, h)
    ELSE IF req.type = "REMOVE_ALL_RSA_IDENTITIES" THEN processRemoveAllIdentity(k, s)
    ELSE Out(k, s, <<Failure>>, <<>>, FALSE)

\* ------------------------------------------------------------------ state
\* KeyManager's members; m_hash is the verifier BotanLockProvider keeps.
NewKeyManager ==
    [m_keys |-> <<>>, m_locked |-> FALSE, m_failed_attempts |-> 0,
     m_locked_until |-> TimePoint(0, InitialLockedUntilOffset),
     m_hash |-> NoData]

\* The embedder's answers that a request consults.
Answers(confirm, requires, consumed) ==
    [confirm |-> confirm, requires |-> requires, consumed |-> consumed]
NoAnswers == Answers(TRUE, FALSE, FALSE)

\* The call that was made last and what came out of it: op and arg name
\* the call, s the session (0: the embedder called KeyManager directly),
\* pre the blobs in the store when it was made, threw whether KeyManager
\* raised, ev the callbacks, sent the reply frames.
Call(op, s, arg, h, threw, ev, sent) ==
    [op |-> op, s |-> s, arg |-> arg, h |-> h, pre |-> PubsOf(km.m_keys),
     threw |-> threw, ev |-> ev, sent |-> sent]

\* A fresh manager and fresh sessions, each with m_async_operation as its
\* constructor left it (one of modes).
InitWith(modes) ==
    /\ now = 0
    /\ km = NewKeyManager
    /\ sess \in [Sessions -> { SessionWith(a) : a \in modes }]
    /\ last = [op |-> "init", s |-> 0, arg |-> <<>>, h |-> NoAnswers, pre |-> <<>>,
               threw |-> FALSE, ev |-> <<>>, sent |-> <<>>]
    /\ crashed = FALSE

\* Sessions that join their worker before processReal returns.
Init == InitWith({FALSE})

\* ---------------------------------------------------------------- actions
\* steady_clock advances by one second.
Tick(cfg) ==
    /\ ~crashed
    /\ now < cfg.maxTime
    /\ now' = now + 1
    /\ last' = Call("tick", 0, <<>>, NoAnswers, FALSE, <<>>, <<>>)
    /\ UNCHANGED <<km, sess, crashed>>

\* The embedder calls KeyManager::addKey(type, blob, comment).
ApiAddKey(cfg) ==
    \E in \in cfg.keyInputs :
        LET r == addKey(km.m_keys, in)
        IN  /\ ~crashed
            /\ km' = [km EXCEPT !.m_keys = r.keys]
            /\ last' = Call("addKey", 0, in, NoAnswers, r.threw, <<>>, <<>>)
            /\ UNCHANGED <<now, sess, crashed>>

\* The embedder calls KeyManager::removeKey.
ApiRemoveKey(cfg) ==
    \E blob \in cfg.pubs :
        LET r == removeKey(km.m_keys, blob)
        IN  /\ ~crashed
            /\ km' = [km EXCEPT !.m_keys = r.keys]
            /\ last' = Call("removeKey", 0, blob, NoAnswers, FALSE, r.ev, <<>>)
            /\ UNCHANGED <<now, sess, crashed>>

\* The embedder calls KeyManager::removeAllKeys.
ApiRemoveAllKeys ==
    LET r == removeAllKeys(km.m_keys)
    IN  /\ ~crashed
        /\ km' = [km EXCEPT !.m_keys = r.keys]
        /\ last' = Call("removeAllKeys", 0, <<>>, NoAnswers, FALSE, r.ev, <<>>)
        /\ UNCHANGED <<now, sess, crashed>>

\* The expiry ticker calls KeyManager::cleanupExpiredKeys.
ApiCleanupExpiredKeys ==
    LET r == cleanupExpiredKeys(km.m_keys, now)
    IN  /\ ~crashed
        /\ km' = [km EXCEPT !.m_keys = r.keys]
        /\ last' = Call("cleanupExpiredKeys", 0, <<>>, NoAnswers, FALSE, r.ev, <<>>)
        /\ UNCHANGED <<now, sess, crashed>>

\* The embedder calls KeyManager::lock.
ApiLock(cfg) ==
    \E pw \in cfg.lockPws :
        LET r == lock(km, pw)
        IN  /\ ~crashed
            /\ km' = r.km
            /\ crashed' = LockDerefsNull(km)
            /\ last' = Call("lock", 0, pw, NoAnswers, r.threw, r.ev, <<>>)
            /\ UNCHANGED <<now, sess>>

\* The embedder calls KeyManager::unlock.
ApiUnlock(cfg) ==
    \E pw \in cfg.unlockPws, cast \in CastOutcome :
        LET r == unlock(km, pw, now, cast)
        IN  /\ ~crashed
            /\ km.m_failed_attempts < cfg.maxAttempts
            /\ km' = r.km
            /\ last' = Call("unlock", 0, pw, NoAnswers, r.threw, r.ev, <<>>)
            /\ UNCHANGED <<now, sess, crashed>>

\* ------------------------------------------------------------ request frames
Comments == {"c1", "c2"}
Lifetime == 2

ToHop1 == Hop("", "h1", <<HopKey("hk1", FALSE)>>)
AnyHop == Hop("", "", <<>>)
Dest1  == <<Constraint(AnyHop, ToHop1)>>

AddReq(type, key, lifetime, confirm, ext, dest) ==
    [type |-> type, key |-> key, lifetime |-> lifetime, confirm |-> confirm,
     ext |-> ext, dest |-> dest]
RemoveReq(pub, wf) == [type |-> "REMOVE_IDENTITY", pub |-> pub, wf |-> wf]
SignData(kind, session_id, user) ==
    [kind |-> kind, session_id |-> session_id, user |-> user]
SignReq(pub, data, wf) ==
    [type |-> "SIGN_REQUEST", pub |-> pub, data |-> data, wf |-> wf]
ExtReq(name, host_key, session_id, sig, forwarded, wf) ==
    [type |-> "EXTENSION", name |-> name, host_key |-> host_key,
     session_id |-> session_id, sig |-> sig, forwarded |-> forwarded, wf |-> wf]
PwReq(type, pw, wf) == [type |-> type, pw |-> pw, wf |-> wf]
BareReq(type) == [type |-> type, wf |-> TRUE]

PlainAdds(pubs, comments) ==
    { AddReq("ADD_IDENTITY", KeyInput("ssh-ed25519", p, TRUE, c), 0, FALSE, "", <<>>) :
        p \in pubs, c \in comments }

ConstrainedAdds(pubs) ==
    { AddReq("ADD_IDENTITY_CONSTRAINED", KeyInput("ssh-ed25519", p, TRUE, "c1"),
             x[1], x[2], x[3], x[4]) :
        p \in pubs,
        x \in { <<Lifetime, TRUE, RestrictDestinationName, Dest1>>,
                <<0, FALSE, RestrictDestinationName, Dest1>>,
                <<Lifetime, FALSE, "", <<>> >>,
                <<0, TRUE, "", <<>> >> } }

BadAdds ==
    { AddReq("ADD_IDENTITY", KeyInput("ssh-unsupported", 1, TRUE, "c1"), 0, FALSE, "", <<>>),
      AddReq("ADD_IDENTITY", KeyInput("ssh-ed25519", 1, FALSE, "c2"), 0, FALSE, "", <<>>),
      AddReq("ADD_IDENTITY_CONSTRAINED", KeyInput("ssh-ed25519", 1, TRUE, "c2"),
             0, FALSE, "unknown@example.com", <<>>) }

SignReqs(pubs) ==
    { SignReq(p, d, TRUE) :
        p \in pubs,
        d \in { SignData("raw", "", ""), SignData("userauth", "s1", "u1") } }
    \cup { SignReq(1, SignData("raw", "", ""), FALSE) }

ExtReqs(forwardings) ==
    { ExtReq(SessionBindName, "hk1", "s1", "good", f, TRUE) : f \in forwardings }
    \cup { ExtReq(SessionBindName, "hk1", "s1", "bad", FALSE, TRUE),
           ExtReq("unknown@example.com", "", "", "", FALSE, TRUE) }

PwReqs(type, pws) ==
    { PwReq(type, pw, TRUE) : pw \in pws } \cup { PwReq(type, "pw", FALSE) }

\* Session::process hands one complete frame to processReal.
Handle(s, req, h, cast) ==
    processReal(km, sess[s], req, now,
                Hooks(h.confirm, h.requires, h.consumed, cast))

\* A client sends ADD_IDENTITY or ADD_IDENTITY_CONSTRAINED.
SessAddIdentity(cfg) ==
    \E s \in Sessions, req \in cfg.addReqs :
        \E o \in { Handle(s, req, NoAnswers, "min") } :
            /\ ~crashed
            /\ km' = o.km
            /\ sess' = [sess EXCEPT ![s] = o.s]
            /\ crashed' = o.crash
            /\ last' = Call(req.type, s, req, NoAnswers, FALSE, o.ev, o.sent)
            /\ UNCHANGED now

\* A client sends REMOVE_IDENTITY.
SessRemoveIdentity(cfg) ==
    \E s \in Sessions, req \in cfg.removeReqs :
        \E o \in { Handle(s, req, NoAnswers, "min") } :
            /\ ~crashed
            /\ km' = o.km
            /\ sess' = [sess EXCEPT ![s] = o.s]
            /\ crashed' = o.crash
            /\ last' = Call(req.type, s, req, NoAnswers, FALSE, o.ev, o.sent)
            /\ UNCHANGED now

\* A client sends REMOVE_ALL_IDENTITIES (or the RSA1 variant).
SessRemoveAll(cfg) ==
    \E s \in Sessions, req \in cfg.removeAllReqs :
        \E o \in { Handle(s, req, NoAnswers, "min") } :
            /\ ~crashed
            /\ km' = o.km
            /\ sess' = [sess EXCEPT ![s] = o.s]
            /\ crashed' = o.crash
            /\ last' = Call(req.type, s, req, NoAnswers, FALSE, o.ev, o.sent)
            /\ UNCHANGED now

\* A client sends SIGN_REQUEST; the embedder answers the confirmation hooks.
SessSignRequest(cfg) ==
    \E s \in Sessions, req \in cfg.signReqs, h \in cfg.signAnswers :
        \E o \in { Handle(s, req, h, "min") } :
            /\ ~crashed
            /\ km' = o.km
            /\ sess' = [sess EXCEPT ![s] = o.s]
            /\ crashed' = o.crash
            /\ last' = Call(req.type, s, req, h, FALSE, o.ev, o.sent)
            /\ UNCHANGED now

\* A client sends REQUEST_IDENTITIES.
SessRequestIdentities(cfg) ==
    \E s \in Sessions, req \in cfg.listReqs :
        \E o \in { Handle(s, req, NoAnswers, "min") } :
            /\ ~crashed
            /\ km' = o.km
            /\ sess' = [sess EXCEPT ![s] = o.s]
            /\ crashed' = o.crash
            /\ last' = Call(req.type, s, req, NoAnswers, FALSE, o.ev, o.sent)
            /\ UNCHANGED now

\* A client sends EXTENSION; the embedder's hook may consume it.
SessExtension(cfg) ==
    \E s \in Sessions, req \in cfg.extReqs, h \in cfg.extAnswers :
        \E o \in { Handle(s, req, h, "min") } :
            /\ ~crashed
            /\ Len(sess[s].m_session_bindings) < cfg.maxBindings
            /\ km' = o.km
            /\ sess' = [sess EXCEPT ![s] = o.s]
            /\ crashed' = o.crash
            /\ last' = Call(req.type, s, req, h, FALSE, o.ev, o.sent)
            /\ UNCHANGED now

\* A client sends LOCK.
SessLock(cfg) ==
    \E s \in Sessions, req \in cfg.lockReqs :
        \E o \in { Handle(s, req, NoAnswers, "min") } :
            /\ ~crashed
            /\ km' = o.km
            /\ sess' = [sess EXCEPT ![s] = o.s]
            /\ crashed' = o.crash
            /\ last' = Call(req.type, s, req, NoAnswers, FALSE, o.ev, o.sent)
            /\ UNCHANGED now

\* A client sends UNLOCK.
SessUnlock(cfg) ==
    \E s \in Sessions, req \in cfg.unlockReqs, cast \in CastOutcome :
        \E o \in { Handle(s, req, NoAnswers, cast) } :
            /\ ~crashed
            /\ km.m_failed_attempts < cfg.maxAttempts
            /\ km' = o.km
            /\ sess' = [sess EXCEPT ![s] = o.s]
            /\ crashed' = o.crash
            /\ last' = Call(req.type, s, req, NoAnswers, FALSE, o.ev, o.sent)
            /\ UNCHANGED now

\* A client sends a frame of a type the agent does not know.
SessUnknown(cfg) ==
    \E s \in Sessions, req \in cfg.otherReqs :
        \E o \in { Handle(s, req, NoAnswers, "min") } :
            /\ ~crashed
            /\ km' = o.km
            /\ sess' = [sess EXCEPT ![s] = o.s]
            /\ crashed' = o.crash
            /\ last' = Call(req.type, s, req, NoAnswers, FALSE, o.ev, o.sent)
            /\ UNCHANGED now

\* The agent: embedder calls, the clock, and client frames.
Next(cfg) ==
    \/ Tick(cfg)
    \/ ApiAddKey(cfg)
    \/ ApiRemoveKey(cfg)
    \/ ApiRemoveAllKeys
    \/ ApiCleanupExpiredKeys
    \/ ApiLock(cfg)
    \/ ApiUnlock(cfg)
    \/ SessAddIdentity(cfg)
    \/ SessRemoveIdentity(cfg)
    \/ SessRemoveAll(cfg)
    \/ SessSignRequest(cfg)
    \/ SessRequestIdentities(cfg)
    \/ SessExtension(cfg)
    \/ SessLock(cfg)
    \/ SessUnlock(cfg)
    \/ SessUnknown(cfg)

\* KeyManager alone, driven through its public interface.
NextBackoff(cfg) ==
    \/ Tick(cfg)
    \/ ApiAddKey(cfg)
    \/ ApiRemoveKey(cfg)
    \/ ApiLock(cfg)
    \/ ApiUnlock(cfg)

\* The key store: adds (plain and constrained), removals, the expiry sweep.
NextStore(cfg) ==
    \/ Tick(cfg)
    \/ ApiAddKey(cfg)
    \/ ApiRemoveKey(cfg)
    \/ ApiRemoveAllKeys
    \/ ApiCleanupExpiredKeys
    \/ SessAddIdentity(cfg)

\* Keys with lifetimes, the clock and the expiry sweep.
NextExpiry(cfg) ==
    \/ Tick(cfg)
    \/ SessAddIdentity(cfg)
    \/ ApiRemoveKey(cfg)
    \/ ApiCleanupExpiredKeys

\* Clients alone: every request type, over sessions in either mode.
NextSession(cfg) ==
    \/ SessAddIdentity(cfg)
    \/ SessRemoveIdentity(cfg)
    \/ SessRemoveAll(cfg)
    \/ SessSignRequest(cfg)
    \/ SessRequestIdentities(cfg)
    \/ SessExtension(cfg)
    \/ SessLock(cfg)
    \/ SessUnlock(cfg)
    \/ SessUnknown(cfg)

\* Keys, bindings and the requests that depend on them.
NextBind(cfg) ==
    \/ SessAddIdentity(cfg)
    \/ SessSignRequest(cfg)
    \/ SessRequestIdentities(cfg)
    \/ SessExtension(cfg)

\* --------------------------------------------------------- specifications
\* What the environment offers: the clock's horizon, the caps on counters,
\* and the calls and frames it makes.
GoodKeys(pubs, comments) ==
    { KeyInput("ssh-ed25519", p, TRUE, c) : p \in pubs, c \in comments }
BadKeys ==
    { KeyInput("ssh-unsupported", 1, TRUE, "c1"),
      KeyInput("ssh-ed25519", 1, FALSE, "c1") }

\* Every answer the confirmation hooks can give to a sign request.
ConfirmAnswers == { Answers(c, r, FALSE) : c \in BOOLEAN, r \in BOOLEAN }

\* Signing under confirmation: each key with and without the confirm flag,
\* one of them constrained, and every answer of the two hooks.
CfgConfirm ==
    [maxBindings |-> MaxBindings,
     addReqs |-> PlainAdds({1}, {"c1"})
                 \cup { AddReq("ADD_IDENTITY_CONSTRAINED",
                               KeyInput("ssh-ed25519", x[1], TRUE, "c1"),
                               0, x[2], x[3], x[4]) :
                          x \in { <<1, TRUE, "", <<>> >>,
                                  <<2, TRUE, RestrictDestinationName, Dest1>>,
                                  <<2, FALSE, RestrictDestinationName, Dest1>> } },
     signReqs |-> SignReqs(Pubs),
     signAnswers |-> ConfirmAnswers,
     listReqs |-> { BareReq("REQUEST_IDENTITIES") },
     extReqs |-> ExtReqs({FALSE}),
     extAnswers |-> { Answers(TRUE, FALSE, FALSE) }]

\* Sessions at work: plain and constrained keys, a binding, the lock.
CfgMain ==
    [maxTime |-> MaxTime, maxAttempts |-> MaxAttempts, maxBindings |-> MaxBindings,
     pubs |-> Pubs,
     keyInputs |-> GoodKeys(Pubs, {"c1"}),
     lockPws |-> {"pw"}, unlockPws |-> Passphrases,
     addReqs |-> PlainAdds({1}, {"c1"})
                 \cup { AddReq("ADD_IDENTITY_CONSTRAINED",
                               KeyInput("ssh-ed25519", 2, TRUE, "c1"),
                               0, TRUE, RestrictDestinationName, Dest1) }
                 \cup BadAdds,
     removeReqs |-> { RemoveReq(1, TRUE), RemoveReq(1, FALSE) },
     removeAllReqs |-> { BareReq("REMOVE_ALL_IDENTITIES"),
                         BareReq("REMOVE_ALL_RSA_IDENTITIES") },
     signReqs |-> SignReqs({2}) \cup { SignReq(1, SignData("raw", "", ""), TRUE) },
     signAnswers |-> { Answers(TRUE, FALSE, FALSE), Answers(FALSE, FALSE, FALSE) },
     listReqs |-> { BareReq("REQUEST_IDENTITIES") },
     extReqs |-> ExtReqs({FALSE}),
     extAnswers |-> { Answers(TRUE, FALSE, FALSE) },
     lockReqs |-> PwReqs("LOCK", {"pw"}),
     unlockReqs |-> PwReqs("UNLOCK", Passphrases),
     otherReqs |-> { BareReq("UNKNOWN") }]

\* The passphrase lock under attack: one key, many unlock attempts.
CfgBackoff ==
    [maxTime |-> BackoffTime, maxAttempts |-> BigAttempts,
     pubs |-> {1},
     keyInputs |-> GoodKeys({1}, {"c1"}),
     lockPws |-> {"pw"}, unlockPws |-> Passphrases]

\* The key store under churn: more blobs, two comments, expiring keys.
CfgStore ==
    [maxTime |-> StoreTime,
     pubs |-> 1..StorePubs,
     keyInputs |-> GoodKeys(1..StorePubs, {"c1"}) \cup GoodKeys({1, 2}, Comments)
                   \cup BadKeys,
     addReqs |-> ConstrainedAdds({1}) \cup BadAdds]

\* Expiry: three blobs, added with no lifetime, a short one or a long one.
ExpiryPubs == {1, 2, 3}
LifetimeAdds(pubs, lifetimes) ==
    { AddReq("ADD_IDENTITY_CONSTRAINED", KeyInput("ssh-ed25519", p, TRUE, "c1"),
             l, FALSE, "", <<>>) : p \in pubs, l \in lifetimes }

CfgExpiry ==
    [maxTime |-> ExpiryTime,
     pubs |-> {1},
     addReqs |-> LifetimeAdds(ExpiryPubs, {0, ShortLife, Lifetime})]

\* Binding chains: a key allowed from the origin to h1 and from h1 to h2,
\* an unconstrained key, binds to h1 (forwarding or not) and to h2, failing
\* binds, and sign requests naming either session id.
ToHop2 == Hop("", "h2", <<HopKey("hk2", FALSE)>>)
Dest2  == <<Constraint(AnyHop, ToHop1), Constraint(ToHop1, ToHop2)>>

BindReqs ==
    { ExtReq(SessionBindName, "hk1", "s1", "good", TRUE, TRUE),
      ExtReq(SessionBindName, "hk1", "s1", "good", FALSE, TRUE),
      ExtReq(SessionBindName, "hk2", "s2", "good", FALSE, TRUE),
      ExtReq(SessionBindName, "hk1", "s1", "bad", FALSE, TRUE),
      ExtReq(SessionBindName, "hk1", "s1", "good", FALSE, FALSE) }

CfgBind ==
    [maxBindings |-> BindChain,
     addReqs |-> PlainAdds({1}, {"c1"})
                 \cup { AddReq("ADD_IDENTITY_CONSTRAINED",
                               KeyInput("ssh-ed25519", 2, TRUE, "c1"),
                               0, FALSE, RestrictDestinationName, Dest2) },
     signReqs |-> { SignReq(1, SignData("raw", "", ""), TRUE),
                    SignReq(2, SignData("raw", "", ""), TRUE),
                    SignReq(2, SignData("userauth", "s1", "u1"), TRUE),
                    SignReq(2, SignData("userauth", "s2", "u1"), TRUE) },
     signAnswers |-> { Answers(TRUE, FALSE, FALSE) },
     listReqs |-> { BareReq("REQUEST_IDENTITIES") },
     extReqs |-> BindReqs,
     extAnswers |-> { Answers(TRUE, FALSE, FALSE), Answers(TRUE, FALSE, TRUE) }]

Spec        == Init /\ [][Next(CfgMain)]_vars
SpecBackoff == Init /\ [][NextBackoff(CfgBackoff)]_vars
SpecStore   == Init /\ [][NextStore(CfgStore)]_vars
SpecExpiry  == Init /\ [][NextExpiry(CfgExpiry)]_vars
SpecSession == InitWith(BOOLEAN) /\ [][NextSession(CfgMain)]_vars
SpecBind    == InitWith(BOOLEAN) /\ [][NextBind(CfgBind)]_vars
SpecConfirm == InitWith(BOOLEAN) /\ [][NextBind(CfgConfirm)]_vars

\* ------------------------------------------ the constraint engine, called
\* The sequences over S of length up to n.
SeqsUpTo(S, n) == UNION { [1..m -> S] : m \in 0..n }

\* Key blobs a hop or a binding can hold; "" is the empty blob.
HopBlobs == {"", "hk1", "hk2"}
HopKeyLists == SeqsUpTo({ HopKey(k, ca) : k \in HopBlobs, ca \in BOOLEAN }, MaxHopKeys)

\* A caller builds a hop descriptor and asks it once whether it matches a
\* key blob, as the unit tests of the engine do.
CallMatchesKey ==
    \E hkeys \in HopKeyLists, key \in HopBlobs :
        /\ last.op = "init"
        /\ last' = Call("matchesKey", 0, [hop |-> Hop("", "h1", hkeys), key |-> key],
                        NoAnswers, FALSE, <<>>, <<matchesKey(Hop("", "h1", hkeys), key)>>)
        /\ UNCHANGED <<now, km, sess, crashed>>

\* Constraints as either constructor of OpenSSHSDestinationConstraint can
\* build them: from-hops with and without hostname and keys, to-hops with
\* and without a user, with one key, two keys, or a CA key.
MatchConstraints ==
    { Constraint(Hop("", f[1], f[2]), Hop(u, "h1", t)) :
        f \in { <<"", <<>> >>, <<"h0", <<HopKey("hk1", FALSE)>> >>,
                <<"h0", <<>> >>, <<"", <<HopKey("hk1", FALSE)>> >> },
        u \in {"", "u1"},
        t \in { <<HopKey("hk1", FALSE)>>,
                <<HopKey("hk2", FALSE), HopKey("hk1", FALSE)>>,
                <<HopKey("hk1", TRUE)>> } }

\* A caller asks one constraint whether it matches (from_key, to_key, user).
CallMatches ==
    \E c \in MatchConstraints, from_key \in HopBlobs, to_key \in HopBlobs,
       user \in {"", "u1", "u2"} :
        /\ last.op = "init"
        /\ last' = Call("matches", 0,
                        [c |-> c, from_key |-> from_key, to_key |-> to_key, user |-> user],
                        NoAnswers, FALSE, <<>>, <<matches(c, from_key, to_key, user)>>)
        /\ UNCHANGED <<now, km, sess, crashed>>

\* A key as KeyBase holds it, with the destination constraints dest.
KeyWithDest(dest) == [NewKey(1, "c1") EXCEPT !.dest = dest]

\* A Session with the binding chain b and the binding_failed flag.  The
\* chain is a protected member, and KeyBase::permitted takes any Session, so
\* chains with an empty host key are among them.
SessionWithChain(b, failed) ==
    [NewSession EXCEPT !.m_session_bindings = b,
                       !.m_binding_failed = failed,
                       !.m_is_forwarded = \E i \in 1..Len(b) : b[i].forwarded]

\* A caller asks a key whether it is permitted on a session for a user.
CallPermitted ==
    \E dest \in {<<>>, Dest1, Dest2},
       b \in SeqsUpTo({ SessionBinding(hk, "s1", f) : hk \in HopBlobs, f \in BOOLEAN },
                      BindChain),
       failed \in BOOLEAN, user \in {"", "u1"} :
        /\ last.op = "init"
        /\ last' = Call("permitted", 0,
                        [key |-> KeyWithDest(dest), s |-> SessionWithChain(b, failed),
                         user |-> user],
                        NoAnswers, FALSE, <<>>,
                        <<permitted(KeyWithDest(dest), SessionWithChain(b, failed),
                                    user, NoMatchInfo).ok>>)
        /\ UNCHANGED <<now, km, sess, crashed>>

SpecDest == Init /\ [][CallMatchesKey \/ CallMatches \/ CallPermitted]_vars

\* ------------------------------------------------------------ the codec
\* A frame is the sequence of the fields written to it, each a value of the
\* kind its reader expects: the length placeholder, the type byte, strings,
\* the key blob, constraint bytes, the lifetime word, an extension's body.
\* AddIdentityMessage::serialize
AddIdentity_serialize(m) ==
    <<1, m.type, m.key.type, [pub |-> m.key.pub, privOK |-> m.key.privOK], m.key.comment>>
    \o (IF m.type = "ADD_IDENTITY_CONSTRAINED"
        THEN (IF m.confirm THEN <<SSH_AGENT_CONSTRAIN_CONFIRM>> ELSE <<>>)
             \o (IF m.lifetime > 0
                 THEN <<SSH_AGENT_CONSTRAIN_LIFETIME, m.lifetime>> ELSE <<>>)
        ELSE <<>>)

\* The constraints loop of AddIdentityMessage::deserialize, from field i on.
RECURSIVE readConstraints(_, _, _)
readConstraints(f, i, m) ==
    IF i > Len(f) THEN [ok |-> TRUE, msg |-> m]
    ELSE IF f[i] = SSH_AGENT_CONSTRAIN_CONFIRM
         THEN readConstraints(f, i + 1, [m EXCEPT !.confirm = TRUE])
    ELSE IF f[i] = SSH_AGENT_CONSTRAIN_LIFETIME
         THEN IF i + 1 > Len(f) THEN [ok |-> FALSE, msg |-> m]
              ELSE readConstraints(f, i + 2, [m EXCEPT !.lifetime = f[i + 1]])
    ELSE IF f[i] = SSH_AGENT_CONSTRAIN_EXTENSION
         THEN IF i + 2 > Len(f) \/ f[i + 1] \notin RegisteredConstraintExtensions
              THEN [ok |-> FALSE, msg |-> m]
              ELSE readConstraints(f, i + 3, [m EXCEPT !.ext = f[i + 1], !.dest = f[i + 2]])
    ELSE [ok |-> FALSE, msg |-> m]

\* AddIdentityMessage::deserialize: the message read, or ok = FALSE for a
\* throw.
AddIdentity_deserialize(f) ==
    LET m == [type |-> IF Len(f) >= 2 THEN f[2] ELSE "",
              key |-> IF Len(f) >= 5
                      THEN KeyInput(f[3], f[4].pub, f[4].privOK, f[5])
                      ELSE KeyInput("", 0, FALSE, ""),
              lifetime |-> 0, confirm |-> FALSE, ext |-> "", dest |-> <<>>]
    IN  IF Len(f) < 5 THEN [ok |-> FALSE, msg |-> m]
        ELSE IF m.type \notin {"ADD_IDENTITY", "ADD_IDENTITY_CONSTRAINED"}
             THEN [ok |-> FALSE, msg |-> m]
        ELSE IF m.key.type \notin RegisteredKeyTypes THEN [ok |-> FALSE, msg |-> m]
        ELSE IF m.type = "ADD_IDENTITY_CONSTRAINED" THEN readConstraints(f, 6, m)
        ELSE [ok |-> TRUE, msg |-> m]

\* The AddIdentityMessage objects a client can fill through the setters: an
\* ADD_IDENTITY without constraints, or an ADD_IDENTITY_CONSTRAINED with any
\* of confirm, a lifetime and a restrict-destination extension.
AddMessages ==
    PlainAdds(Pubs, Comments)
    \cup { AddReq("ADD_IDENTITY_CONSTRAINED", KeyInput("ssh-ed25519", p, TRUE, c),
                  l, cf, x[1], x[2]) :
             p \in Pubs, c \in Comments, l \in {0, ShortLife, Lifetime}, cf \in BOOLEAN,
             x \in { <<"", <<>> >>, <<RestrictDestinationName, Dest1>>,
                     <<RestrictDestinationName, Dest2>> } }

\* A client fills an AddIdentityMessage, serializes it, and the frame is
\* read back into a second message
\* (SerializeDeserializeRoundTripEd25519).
CallAddIdentityRoundTrip ==
    \E m \in AddMessages :
        /\ last.op = "init"
        /\ last' = Call("AddIdentityMessage::serialize", 0, m, NoAnswers, FALSE, <<>>,
                        <<AddIdentity_serialize(m),
                          AddIdentity_deserialize(AddIdentity_serialize(m))>>)
        /\ UNCHANGED <<now, km, sess, crashed>>

\* Byte values on both sides of the sign bit, and the byte strings over them.
ByteStrings == SeqsUpTo({0, 1, 127, 128, 255}, MaxMpintLen)

\* Serializer::writeBE32
writeBE32(value) ==
    << (value \div 16777216) % 256, (value \div 65536) % 256,
       (value \div 256) % 256, value % 256 >>

\* Deserializer::readBE32 at the start of data (defined for four bytes or more)
readBE32(data) ==
    data[1] * 16777216 + data[2] * 65536 + data[3] * 256 + data[4]

\* Serializer::writeMPInt into an empty buffer
writeMPInt(mpint) ==
    IF mpint = <<>> THEN writeBE32(0)
    ELSE LET prepend_zero == mpint[1] >= 128         \* (mpint[0] & 0x80) != 0
         IN  writeBE32(Len(mpint) + (IF prepend_zero THEN 1 ELSE 0))
             \o (IF prepend_zero THEN <<0>> ELSE <<>>) \o mpint

\* A reader that hands out the bytes as they stand in the frame.
readMPIntKeepsZero(data) ==
    IF Len(data) < 4 \/ 4 + readBE32(data) > Len(data)
    THEN [ok |-> FALSE, value |-> <<>>]
    ELSE [ok |-> TRUE, value |-> SubSeq(data, 5, 4 + readBE32(data))]

\* Deserializer::readMPInt at the start of data; ok = FALSE for a throw.
readMPInt(data) ==
    IF Len(data) < 4 \/ 4 + readBE32(data) > Len(data)
    THEN [ok |-> FALSE, value |-> <<>>]
    ELSE LET result == SubSeq(data, 5, 4 + readBE32(data))
         IN  [ok |-> TRUE,
              value |-> IF Len(result) > 1 /\ result[1] = 0 /\ result[2] >= 128
                        THEN Tail(result) ELSE result]

\* A caller writes a byte string as an mpint and reads the frame back.
CallMPInt ==
    \E n \in ByteStrings :
        /\ last.op = "init"
        /\ last' = Call("writeMPInt", 0, n, NoAnswers, FALSE, <<>>,
                        <<writeMPInt(n), readMPInt(writeMPInt(n))>>)
        /\ UNCHANGED <<now, km, sess, crashed>>

\* Message type codes on the wire.
SSH_AGENTC_REMOVE_IDENTITY == 18
SSH_AGENTC_REMOVE_ALL_IDENTITIES == 19

\* RemoveIdentityMessage::serialize and the REMOVE_ALL_IDENTITIES frame: the
\* length word, the type byte and, for a removal, the key blob (one byte
\* standing for key pub).
RemoveFrame(pub) ==
    writeBE32(6) \o <<SSH_AGENTC_REMOVE_IDENTITY>> \o writeBE32(1) \o <<pub>>
RemoveAllFrame == writeBE32(1) \o <<SSH_AGENTC_REMOVE_ALL_IDENTITIES>>

\* What processReal and the handler it picks make of length >= 5 bytes:
\* Message::deserialize reads the length word without looking at it and
\* takes the fifth byte as the type; RemoveIdentityMessage::deserialize then
\* reads a blob, which fails when its length word or its bytes are not all
\* there; bytes behind what was read are left alone.
parseFrame(data) ==
    IF data[5] = SSH_AGENTC_REMOVE_ALL_IDENTITIES THEN BareReq("REMOVE_ALL_IDENTITIES")
    ELSE IF data[5] = SSH_AGENTC_REMOVE_IDENTITY
         THEN LET rest == SubSeq(data, 6, Len(data))
              IN  IF Len(rest) >= 4 /\ 4 + readBE32(rest) <= Len(rest)
                  THEN RemoveReq(IF readBE32(rest) = 1 THEN rest[5] ELSE 0, TRUE)
                  ELSE RemoveReq(0, FALSE)
    ELSE BareReq("UNKNOWN")

\* Session::process on one chunk of received bytes, with m_temp_buffer as
\* it stands: the outcome of processReal, the buffer afterwards, whether an
\* exception left process, and the length of what was handed to processReal
\* (none when nothing was).  Message's constructor throws, outside any try,
\* when it is given fewer than five bytes, and the clear() is then skipped.
process(k, s, buffer, chunk, t) ==
    IF Len(buffer) > 0
    THEN LET all == buffer \o chunk
         IN  IF Len(all) < 5
             THEN [o |-> Out(k, s, <<>>, <<>>, FALSE), buffer |-> all,
                   threw |-> TRUE, parsed |-> <<Len(all)>>]
             ELSE [o |-> processReal(k, s, parseFrame(all), t, Hooks(TRUE, FALSE, FALSE, "min")),
                   buffer |-> <<>>, threw |-> FALSE, parsed |-> <<Len(all)>>]
    ELSE IF Len(chunk) < 5
    THEN [o |-> Out(k, s, <<>>, <<>>, FALSE), buffer |-> chunk,
          threw |-> FALSE, parsed |-> <<>>]
    ELSE [o |-> processReal(k, s, parseFrame(chunk), t, Hooks(TRUE, FALSE, FALSE, "min")),
          buffer |-> <<>>, threw |-> FALSE, parsed |-> <<Len(chunk)>>]

\* A store with both keys, and a connection on which nothing has arrived:
\* what the calls of process so far have left and sent.
TwoKeys == [NewKeyManager EXCEPT !.m_keys = <<NewKey(1, "c1"), NewKey(2, "c1")>>]
Connected(k) ==
    [km |-> k, s |-> NewSession, buffer |-> <<>>, sent |-> <<>>, threw |-> FALSE,
     parsed |-> <<>>]

\* What one call of process makes of the connection acc.
After(acc, r) ==
    [km |-> r.o.km, s |-> r.o.s, buffer |-> r.buffer, sent |-> acc.sent \o r.o.sent,
     threw |-> r.threw, parsed |-> acc.parsed \o r.parsed]

RECURSIVE SumOf(_)
SumOf(q) == IF q = <<>> THEN 0 ELSE q[1] + SumOf(Tail(q))

\* The ways recv() can cut data into at most MaxChunks non-empty chunks.
Cuts(data) ==
    { c \in SeqsUpTo(1..Len(data), MaxChunks) : SumOf(c) = Len(data) }

\* A client writes a frame to a connection of an agent that holds both
\* keys; the transport will deliver it cut at the given lengths.
CallProcess ==
    \E frame \in { RemoveFrame(1), RemoveFrame(2), RemoveAllFrame } :
        \E lengths \in Cuts(frame) :
            /\ last.op = "init"
            /\ last' = Call("process", 1,
                            [frame |-> frame, lengths |-> lengths, i |-> 0],
                            NoAnswers, FALSE, <<>>, <<Connected(TwoKeys)>>)
            /\ UNCHANGED <<now, km, sess, crashed>>

\* One round of the reader's loop: recv() returns the next chunk and the
\* reader hands it to process; an exception from process ends the reader.
RecvChunk ==
    /\ last.op = "process"
    /\ last.arg.i < Len(last.arg.lengths)
    /\ ~last.sent[1].threw
    /\ \E from \in { SumOf(SubSeq(last.arg.lengths, 1, last.arg.i)) } :
         \E r \in { process(last.sent[1].km, last.sent[1].s, last.sent[1].buffer,
                            SubSeq(last.arg.frame, from + 1,
                                   from + last.arg.lengths[last.arg.i + 1]),
                            now) } :
            last' = [last EXCEPT !.arg.i = @ + 1,
                                 !.sent = <<After(last.sent[1], r)>>]
    /\ UNCHANGED <<now, km, sess, crashed>>

SpecCodec ==
    Init /\ [][CallAddIdentityRoundTrip \/ CallMPInt \/ CallProcess \/ RecvChunk]_vars

\* ------------------------------------------------- workers running apart
\* The connections of an agent whose reader serves several clients.
AsyncSessions == {1, 2}

\* The worker behind m_confirmation_thread: where it stands (idle, spawned,
\* waiting in confirmRequest), the number of the frame it serves, the frame,
\* and the shared_ptr that getKey gave it before confirmRequest was called.
SignJob(pc, n, req, key) == [pc |-> pc, n |-> n, req |-> req, key |-> key]

\* The worker behind m_key_selection_thread inside KeyManager::listKeys: i
\* and end are the iterators of the range-for over m_keys, items its result.
ListJob(pc, n, i, end, items) ==
    [pc |-> pc, n |-> n, i |-> i, end |-> end, items |-> items]

\* A Session that leaves its workers running (m_async_operation as
\* declared), with the two single-slot markers, the two workers, the number
\* of frames handed to process() and the frames replied to, in the order in
\* which send() was called.
NewAsyncSession ==
    SessionWith(TRUE) @@
    [m_waiting_for_confirmation |-> FALSE,
     m_waiting_for_key_selection |-> FALSE,
     confirmation_job |-> SignJob("idle", 0, <<>>, NoKey),
     selection_job |-> ListJob("idle", 0, 0, 0, <<>>),
     handed |-> 0, wire |-> <<>>]

InitAsync ==
    /\ now = 0
    /\ km = NewKeyManager
    /\ sess = [s \in AsyncSessions |-> NewAsyncSession]
    /\ last = [op |-> "init", s |-> 0, arg |-> <<>>, h |-> NoAnswers, pre |-> <<>>,
               threw |-> FALSE, ev |-> <<>>, sent |-> <<>>]
    /\ crashed = FALSE

\* The reader hands a frame that processReal answers on the reader's thread.
AsyncDispatch(cfg) ==
    \E s \in AsyncSessions, req \in cfg.inlineReqs :
        \E o \in { processReal(km, sess[s], req, now, Hooks(TRUE, FALSE, FALSE, "min")) } :
            /\ ~crashed
            /\ sess[s].handed < cfg.maxHanded
            /\ km' = o.km
            /\ sess' = [sess EXCEPT ![s] =
                          [o.s EXCEPT !.handed = @ + 1,
                                      !.wire = IF Len(o.sent) > 0
                                               THEN Append(@, sess[s].handed + 1)
                                               ELSE @]]
            /\ crashed' = o.crash
            /\ last' = Call(req.type, s, req, NoAnswers, FALSE, o.ev, o.sent)
            /\ UNCHANGED now

\* The reader hands a SIGN_REQUEST: processReal throws when the marker is
\* up, dies in std::thread::operator= when the member is still joinable,
\* and otherwise starts the worker and returns true without joining it.
AsyncSignRequest(cfg) ==
    \E s \in AsyncSessions, req \in cfg.signReqs :
        /\ ~crashed
        /\ sess[s].handed < cfg.maxHanded
        /\ IF LockGate(km, req)
           THEN /\ sess' = [sess EXCEPT ![s].handed = @ + 1,
                                        ![s].wire = Append(@, sess[s].handed + 1)]
                /\ crashed' = crashed
                /\ last' = Call(req.type, s, req, NoAnswers, FALSE, <<>>, <<Failure>>)
           ELSE IF sess[s].m_waiting_for_confirmation
           THEN /\ sess' = [sess EXCEPT ![s].handed = @ + 1]
                /\ crashed' = crashed
                /\ last' = Call(req.type, s, req, NoAnswers, TRUE, <<>>, <<>>)
           ELSE IF sess[s].m_confirmation_thread
           THEN /\ sess' = [sess EXCEPT ![s].handed = @ + 1]
                /\ crashed' = TRUE
                /\ last' = Call(req.type, s, req, NoAnswers, FALSE, <<>>, <<>>)
           ELSE /\ sess' = [sess EXCEPT
                               ![s].handed = @ + 1,
                               ![s].m_confirmation_thread = TRUE,
                               ![s].confirmation_job =
                                   SignJob("spawned", sess[s].handed + 1, req, NoKey)]
                /\ crashed' = crashed
                /\ last' = Call(req.type, s, req, NoAnswers, FALSE, <<>>, <<>>)
        /\ UNCHANGED <<now, km>>

\* The sign worker raises m_waiting_for_confirmation and enters
\* processSignRequest: it takes the key from the store and then calls
\* confirmRequest, which may keep it for seconds.
WorkerSignStart ==
    \E s \in AsyncSessions :
        /\ ~crashed
        /\ sess[s].confirmation_job.pc = "spawned"
        /\ sess' = [sess EXCEPT
                       ![s].m_waiting_for_confirmation = TRUE,
                       ![s].confirmation_job =
                           SignJob("waiting", @.n, @.req, getKey(km.m_keys, @.req.pub))]
        /\ UNCHANGED <<now, km, last, crashed>>

\* The sign worker gets its answer, goes on with the key it holds (the
\* store is not asked again), sends the reply and lowers the marker; the
\* thread member stays joinable.
WorkerSignFinish(cfg) ==
    \E s \in AsyncSessions, h \in cfg.signAnswers :
        \E job \in { sess[s].confirmation_job } :
            /\ ~crashed
            /\ job.pc = "waiting"
            /\ \E o \in { processSignRequest(
                                [km EXCEPT !.m_keys = IF job.key = NoKey THEN <<>>
                                                      ELSE <<job.key>>],
                                sess[s], job.req,
                                Hooks(h.confirm, h.requires, FALSE, "min")) } :
                /\ km' = km
                /\ sess' = [sess EXCEPT ![s] =
                              [o.s EXCEPT !.m_waiting_for_confirmation = FALSE,
                                          !.confirmation_job = SignJob("idle", 0, <<>>, NoKey),
                                          !.wire = IF Len(o.sent) > 0
                                                   THEN Append(@, job.n) ELSE @]]
                /\ crashed' = o.crash
                /\ last' = Call("SIGN_REQUEST", s, job.req, h, FALSE,
                                [i \in 1..Len(o.ev) |->
                                    [o.ev[i] EXCEPT !.store = PubsOf(km.m_keys)]],
                                o.sent)
                /\ UNCHANGED now

\* The reader hands a REQUEST_IDENTITIES: as for SIGN_REQUEST, with the
\* key-selection marker and thread.
AsyncRequestIdentities(cfg) ==
    \E s \in AsyncSessions, req \in cfg.listReqs :
        /\ ~crashed
        /\ sess[s].handed < cfg.maxHanded
        /\ IF LockGate(km, req)
           THEN /\ sess' = [sess EXCEPT ![s].handed = @ + 1,
                                        ![s].wire = Append(@, sess[s].handed + 1)]
                /\ crashed' = crashed
                /\ last' = Call(req.type, s, req, NoAnswers, FALSE, <<>>, <<Failure>>)
           ELSE IF sess[s].m_waiting_for_key_selection
           THEN /\ sess' = [sess EXCEPT ![s].handed = @ + 1]
                /\ crashed' = crashed
                /\ last' = Call(req.type, s, req, NoAnswers, TRUE, <<>>, <<>>)
           ELSE IF sess[s].m_key_selection_thread
           THEN /\ sess' = [sess EXCEPT ![s].handed = @ + 1]
                /\ crashed' = TRUE
                /\ last' = Call(req.type, s, req, NoAnswers, FALSE, <<>>, <<>>)
           ELSE /\ sess' = [sess EXCEPT
                               ![s].handed = @ + 1,
                               ![s].m_key_selection_thread = TRUE,
                               ![s].selection_job =
                                   ListJob("spawned", sess[s].handed + 1, 0, 0, <<>>)]
                /\ crashed' = crashed
                /\ last' = Call(req.type, s, req, NoAnswers, FALSE, <<>>, <<>>)
        /\ UNCHANGED <<now, km>>

\* The list worker raises its marker and enters KeyManager::listKeys: the
\* range-for takes m_keys.begin() and m_keys.end() once.
WorkerListStart ==
    \E s \in AsyncSessions :
        /\ ~crashed
        /\ sess[s].selection_job.pc = "spawned"
        /\ sess' = [sess EXCEPT
                       ![s].m_waiting_for_key_selection = TRUE,
                       ![s].selection_job =
                           ListJob("listing", @.n, 1, Len(km.m_keys), <<>>)]
        /\ UNCHANGED <<now, km, last, crashed>>

\* One round of the range-for.  KeyManager holds no lock, so m_keys is what
\* the other threads have made of it: a position the vector still has is
\* read as it is now; a position behind its present end holds a destroyed
\* shared_ptr, and reading it either kills the process or passes unnoticed.
WorkerListStep ==
    \E s \in AsyncSessions, gone \in {"crash", "skip"} :
        \E job \in { sess[s].selection_job } :
            /\ ~crashed
            /\ job.pc = "listing"
            /\ job.i <= job.end
            /\ IF job.i <= Len(km.m_keys)
               THEN /\ gone = "skip"
                    /\ crashed' = crashed
                    /\ sess' = [sess EXCEPT ![s].selection_job =
                          ListJob("listing", job.n, job.i + 1, job.end,
                                  job.items \o listKeys(<<km.m_keys[job.i]>>, sess[s]))]
               ELSE /\ crashed' = (gone = "crash")
                    /\ sess' = [sess EXCEPT ![s].selection_job.i = @ + 1]
            /\ UNCHANGED <<now, km, last>>

\* listKeys returns; the worker sends the IDENTITIES_ANSWER and lowers the
\* marker.
WorkerListFinish ==
    \E s \in AsyncSessions :
        \E job \in { sess[s].selection_job } :
            /\ ~crashed
            /\ job.pc = "listing"
            /\ job.i > job.end
            /\ sess' = [sess EXCEPT
                           ![s].m_waiting_for_key_selection = FALSE,
                           ![s].selection_job = ListJob("idle", 0, 0, 0, <<>>),
                           ![s].wire = Append(@, job.n)]
            /\ last' = Call("REQUEST_IDENTITIES", s, BareReq("REQUEST_IDENTITIES"),
                            NoAnswers, FALSE, <<>>,
                            <<Reply("IDENTITIES_ANSWER", job.items)>>)
            /\ UNCHANGED <<now, km, crashed>>

\* The reader and the workers, each taking its steps when it is scheduled.
NextAsync(cfg) ==
    \/ AsyncDispatch(cfg)
    \/ AsyncSignRequest(cfg)
    \/ WorkerSignStart
    \/ WorkerSignFinish(cfg)
    \/ AsyncRequestIdentities(cfg)
    \/ WorkerListStart
    \/ WorkerListStep
    \/ WorkerListFinish

\* Two clients, two keys, and the frames that add, remove, list and sign.
CfgAsync ==
    [maxHanded |-> MaxHanded,
     inlineReqs |-> PlainAdds(Pubs, {"c1"})
                    \cup { RemoveReq(1, TRUE), BareReq("REMOVE_ALL_IDENTITIES") },
     signReqs |-> { SignReq(1, SignData("raw", "", ""), TRUE) },
     signAnswers |-> { Answers(TRUE, TRUE, FALSE) },
     listReqs |-> { BareReq("REQUEST_IDENTITIES") }]

SpecAsync == InitAsync /\ [][NextAsync(CfgAsync)]_vars

\* ------------------------------------------------------------- properties
\* While the manager is unlocked every key holds its private key, so neither
\* KeyManager::lock nor a signature dereferences a null m_priv_key.
KeysLiveWhenUnlocked ==
    ~km.m_locked => \A i \in 1..Len(km.m_keys) : km.m_keys[i].priv
NeverCrashes == ~crashed

\* The step just taken was a session handling a frame of a type other than
\* UNLOCK while the manager was locked.
GatedStep == last'.s \in Sessions /\ km.m_locked /\ last'.op # "UNLOCK"

\* C1 (lock gate): while the KeyManager is locked, a session handling a
\* request of any type but UNLOCK sends exactly one FAILURE and does nothing
\* else: the manager (its key store included), the session's bindings and
\* its binding_failed flag are as before, and no callback is made.
C1_LockGate ==
    [][GatedStep =>
          /\ last'.sent = <<Failure>>
          /\ last'.ev = <<>>
          /\ km' = km
          /\ sess' = sess
          /\ ~crashed']_vars

\* A well-formed session-bind, which an unlocked agent accepts, was refused
\* by a locked one.
C1_Witness ==
    /\ km.m_locked
    /\ last.s \in Sessions
    /\ last.op = "EXTENSION"
    /\ ExtensionParses(last.arg)
    /\ ~last.h.consumed
    /\ last.sent = <<Failure>>
    /\ sess[last.s].m_session_bindings = <<>>
    /\ ~sess[last.s].m_binding_failed

\* A key as a client can tell it: everything but the encrypted copy that
\* BotanLock keeps after a lock.
Visible(k) == [k EXCEPT !.locked_data = NoData]
VisibleKeys(keys) == [i \in 1..Len(keys) |-> Visible(keys[i])]

\* A sign request for the key at position i, as a local client sends it.
RawSign(keys, i) == SignReq(keys[i].pub, SignData("raw", "", ""), TRUE)
Confirming == Hooks(TRUE, FALSE, FALSE, "min")
Signs(o) == Len(o.sent) = 1 /\ o.sent[1].type = "SIGN_RESPONSE" /\ ~o.crash

\* lock(pw) then unlock(pw) on manager k at time t.
RoundTrip(k, pw, t, cast) == unlock(lock(k, pw).km, pw, t, cast)

\* LOCK pw, then UNLOCK pw, sent by session s; each step's outcome.
AfterLockFrame(s, pw) ==
    processReal(km, sess[s], PwReq("LOCK", pw, TRUE), now, Confirming)
AfterUnlockFrame(s, pw) ==
    processReal(AfterLockFrame(s, pw).km, AfterLockFrame(s, pw).s,
                PwReq("UNLOCK", pw, TRUE), now, Confirming)

\* C2 (lock/unlock round trip): from every reachable unlocked state and for
\* every passphrase pw, lock(pw) followed by unlock(pw) succeeds and leaves
\* the manager unlocked with the same keys in the same order, each holding
\* its private key again; and through a session, a SIGN_REQUEST that is
\* served before the LOCK fails between LOCK and UNLOCK and is served with
\* the same answer after the UNLOCK.
C2_RoundTrip ==
    ~km.m_locked =>
        \A pw \in Passphrases, cast \in CastOutcome :
            /\ ~lock(km, pw).threw
            /\ lock(km, pw).km.m_locked
            /\ ~RoundTrip(km, pw, now, cast).threw
            /\ ~RoundTrip(km, pw, now, cast).km.m_locked
            /\ VisibleKeys(RoundTrip(km, pw, now, cast).km.m_keys) = VisibleKeys(km.m_keys)
            /\ \A i \in 1..Len(km.m_keys) :
                   RoundTrip(km, pw, now, cast).km.m_keys[i].priv
            /\ \A s \in Sessions, i \in 1..Len(km.m_keys) :
                   Signs(processReal(km, sess[s], RawSign(km.m_keys, i), now, Confirming)) =>
                       /\ AfterLockFrame(s, pw).sent = <<Success>>
                       /\ processReal(AfterLockFrame(s, pw).km, AfterLockFrame(s, pw).s,
                                      RawSign(km.m_keys, i), now, Confirming).sent
                              = <<Failure>>
                       /\ AfterUnlockFrame(s, pw).sent = <<Success>>
                       /\ processReal(AfterUnlockFrame(s, pw).km, AfterUnlockFrame(s, pw).s,
                                      RawSign(km.m_keys, i), now, Confirming).sent
                              = processReal(km, sess[s], RawSign(km.m_keys, i), now,
                                            Confirming).sent

\* A session served a signature with a key that has been through lock("pw")
\* and the unlock that followed, in a store of two keys.
C2_Witness ==
    /\ ~km.m_locked
    /\ Len(km.m_keys) = 2
    /\ \A i \in 1..2 : km.m_keys[i].locked_data = "pw" /\ km.m_keys[i].priv
    /\ last.s \in Sessions
    /\ last.op = "SIGN_REQUEST"
    /\ Len(last.sent) = 1
    /\ last.sent[1].type = "SIGN_RESPONSE"

\* The manager is locked and inside / outside its throttle window at time t.
Throttled(k, t) == k.m_locked /\ t - k.m_locked_until.base < k.m_locked_until.wait
Open(k, t)      == k.m_locked /\ ~(t - k.m_locked_until.base < k.m_locked_until.wait)

\* Manager k after n unlock attempts with passphrase pw, all at time t.
RECURSIVE Attempts(_, _, _, _, _)
Attempts(k, n, pw, t, cast) ==
    IF n = 0 THEN k ELSE Attempts(unlock(k, pw, t, cast).km, n - 1, pw, t, cast)

\* C3 (unlock throttle window): while the manager is locked and now is before
\* locked_until, unlock with any passphrase, the correct one included, fails
\* without a call to the lock provider and without a callback, adds one to
\* failed_attempts and changes nothing else (the manager stays locked, no
\* key is touched); and right after a lock, four wrong unlocks followed at
\* once by the correct passphrase end in such a throttled failure.
C3_ThrottleWindow ==
    /\ Throttled(km, now) =>
           \A pw \in Passphrases, cast \in CastOutcome :
               unlock(km, pw, now, cast)
                   = Res([km EXCEPT !.m_failed_attempts = @ + 1], <<>>, TRUE)
    /\ (Open(km, now) /\ km.m_failed_attempts = 0 /\ km.m_hash = "pw") =>
           \A cast \in CastOutcome :
               /\ Throttled(Attempts(km, 4, "bad", now, cast), now)
               /\ Attempts(km, 4, "bad", now, cast).m_failed_attempts = 4
               /\ unlock(Attempts(km, 4, "bad", now, cast), "pw", now, cast).threw
               /\ unlock(Attempts(km, 4, "bad", now, cast), "pw", now, cast).ev = <<>>
               /\ unlock(Attempts(km, 4, "bad", now, cast), "pw", now, cast).km.m_locked

\* The correct passphrase was refused inside the window as the fifth attempt
\* in the second the lock was taken, a locked key in the store.
C3_Witness ==
    /\ now = 0
    /\ Throttled(km, now)
    /\ km.m_failed_attempts = 5
    /\ last.op = "unlock"
    /\ last.arg = km.m_hash
    /\ last.threw
    /\ last.ev = <<>>
    /\ Len(km.m_keys) = 1
    /\ ~km.m_keys[1].priv

\* The numeral of a non-negative int, lowest digit first.
RECURSIVE Digits(_)
Digits(v) == IF v = 0 THEN <<>> ELSE <<v % PowBaseDen>> \o Digits(v \div PowBaseDen)

\* Time point tp is  t + floor(1.8^n) seconds.
IsBackoffFrom(tp, t, n) ==
    tp.base = t /\ tp.wait >= 0 /\ Digits(tp.wait) = FloorPowDigits(n)

\* C4 (back-off schedule): an unlock outside the window that fails adds one
\* to failed_attempts, stays locked, and sets locked_until to
\* now + floor(1.8^failed_attempts) exactly when the new count exceeds 2
\* (5 s at the third failure), leaving it alone at the first and second.
C4_BackoffSchedule ==
    Open(km, now) =>
        \A pw \in Passphrases, cast \in CastOutcome :
            unlock(km, pw, now, cast).threw =>
                /\ unlock(km, pw, now, cast).km.m_locked
                /\ unlock(km, pw, now, cast).km.m_failed_attempts
                       = km.m_failed_attempts + 1
                /\ IF km.m_failed_attempts + 1 > 2
                   THEN IsBackoffFrom(unlock(km, pw, now, cast).km.m_locked_until,
                                      now, km.m_failed_attempts + 1)
                   ELSE unlock(km, pw, now, cast).km.m_locked_until = km.m_locked_until
                /\ km.m_failed_attempts + 1 = 3 =>
                       unlock(km, pw, now, cast).km.m_locked_until = TimePoint(now, 5)

\* C5 (recovery after back-off): outside the window the correct passphrase
\* unlocks, whatever happened before: every key holds its private key
\* again, onUnlocked is emitted, failed_attempts is 0 and locked is clear.
C5_Recovery ==
    Open(km, now) =>
        \A cast \in CastOutcome :
            /\ ~unlock(km, km.m_hash, now, cast).threw
            /\ ~unlock(km, km.m_hash, now, cast).km.m_locked
            /\ unlock(km, km.m_hash, now, cast).km.m_failed_attempts = 0
            /\ \A i \in 1..Len(km.m_keys) :
                   unlock(km, km.m_hash, now, cast).km.m_keys[i].priv
            /\ \E i \in 1..Len(unlock(km, km.m_hash, now, cast).ev) :
                   unlock(km, km.m_hash, now, cast).ev[i].e = "onUnlocked"

\* C6 (state errors): lock on a locked manager throws and changes nothing
\* (verifier, keys, flag), calling neither the lock provider nor a callback;
\* unlock on an unlocked manager throws and changes nothing (failed_attempts
\* and locked_until included).
C6_StateErrors ==
    /\ km.m_locked =>
           \A pw \in Passphrases : lock(km, pw) = Res(km, <<>>, TRUE)
    /\ ~km.m_locked =>
           \A pw \in Passphrases, cast \in CastOutcome :
               unlock(km, pw, now, cast) = Res(km, <<>>, TRUE)

\* lock was called on a manager that was locked, with a locked key in it,
\* after a failed unlock had been counted.
C6_Witness ==
    /\ last.op = "lock"
    /\ last.threw
    /\ km.m_locked
    /\ km.m_hash = "pw"
    /\ km.m_failed_attempts = 1
    /\ Len(km.m_keys) = 1
    /\ ~km.m_keys[1].priv

\* C7 (locked keys hold no plaintext): whenever the manager's locked flag is
\* set, every key in the store is in its locked form: no private key, and
\* an encrypted copy under the lock's passphrase.
C7_LockedKeysHoldNoPlaintext ==
    km.m_locked =>
        \A i \in 1..Len(km.m_keys) :
            ~km.m_keys[i].priv /\ km.m_keys[i].locked_data = km.m_hash

\* C8 (key uniqueness): after any sequence of addKey, removeKey,
\* removeAllKeys and cleanupExpiredKeys (and adds by message), no two keys
\* in the store carry the same public-key blob.
C8_KeyUniqueness ==
    \A i, j \in 1..Len(km.m_keys) :
        km.m_keys[i].pub = km.m_keys[j].pub => i = j

\* A blob that was in the store was added again, the store being full.
C8_Witness ==
    /\ last.op = "addKey"
    /\ ~last.threw
    /\ Len(last.pre) = StorePubs
    /\ Len(km.m_keys) = StorePubs
    /\ last.arg.pub = last.pre[2]

\* The keys of the store whose blob is not p, in their order.
Others(keys, p) == SelectSeq(keys, LAMBDA k : k.pub # p)

\* C9 (add replaces): after a successful addKey(type, b, c) with public blob
\* p, getKey(p) has comment c, exactly one entry carries p and it is the
\* last element, and the other keys are the ones that were there, in the
\* order they were in.
C9_AddReplaces ==
    \A in \in CfgStore.keyInputs :
        ~addKey(km.m_keys, in).threw =>
            /\ getKey(addKey(km.m_keys, in).keys, in.pub).comment = in.comment
            /\ Len(addKey(km.m_keys, in).keys) = Len(Others(km.m_keys, in.pub)) + 1
            /\ addKey(km.m_keys, in).keys[Len(addKey(km.m_keys, in).keys)]
                   = NewKey(in.pub, in.comment)
            /\ Others(addKey(km.m_keys, in).keys, in.pub) = Others(km.m_keys, in.pub)

\* The first of three keys was added again under another comment and moved
\* to the end, the two others keeping their order.
C9_Witness ==
    /\ last.op = "addKey"
    /\ ~last.threw
    /\ last.pre = <<1, 2, 3>>
    /\ last.arg.pub = 1
    /\ last.arg.comment = "c2"
    /\ PubsOf(km.m_keys) = <<2, 3, 1>>
    /\ km.m_keys[3].comment = "c2"
    /\ km.m_keys[1].comment = "c1"

\* C10 (constrained add): an ADD_IDENTITY_CONSTRAINED that is answered with
\* SUCCESS leaves the key in the store with the message's lifetime (counted
\* from now), confirm flag and destination constraints, and makes exactly
\* one callback, onKeyAdded, which sees the key in the store with those
\* attributes already set.
C10_ConstrainedAdd ==
    \A s \in Sessions, req \in CfgStore.addReqs :
        (/\ req.type = "ADD_IDENTITY_CONSTRAINED"
         /\ processReal(km, sess[s], req, now, Confirming).sent = <<Success>>) =>
            /\ getKey(processReal(km, sess[s], req, now, Confirming).km.m_keys,
                      req.key.pub)
                   = [NewKey(req.key.pub, req.key.comment) EXCEPT
                         !.lifetime = req.lifetime,
                         !.added = IF req.lifetime > 0 THEN now ELSE 0,
                         !.confirm = req.confirm,
                         !.dest = req.dest]
            /\ processReal(km, sess[s], req, now, Confirming).ev
                   = << [e |-> "onKeyAdded",
                         key |-> getKey(processReal(km, sess[s], req, now,
                                                    Confirming).km.m_keys,
                                        req.key.pub),
                         store |-> PubsOf(processReal(km, sess[s], req, now,
                                                      Confirming).km.m_keys)] >>

\* A key with a lifetime, the confirm flag and a destination constraint was
\* installed over an older entry and announced once.
C10_Witness ==
    /\ last.op = "ADD_IDENTITY_CONSTRAINED"
    /\ last.sent = <<Success>>
    /\ last.arg.lifetime = Lifetime /\ last.arg.confirm /\ last.arg.dest = Dest1
    /\ last.pre = <<1, 2>>
    /\ PubsOf(km.m_keys) = <<2, 1>>
    /\ now > 0
    /\ km.m_keys[2].lifetime = Lifetime /\ km.m_keys[2].added = now
    /\ km.m_keys[2].confirm /\ km.m_keys[2].dest = Dest1
    /\ Len(last.ev) = 1 /\ last.ev[1].e = "onKeyAdded"

\* Whether some key of the store carries blob p.
Holds(keys, p) == \E i \in 1..Len(keys) : keys[i].pub = p

\* C11 (remove): removeKey(p) on a store without a key of blob p leaves the
\* store as it was and makes no callback; on a store with one, the callbacks
\* are onKeyPreRemove(key), seen while the key is still in the store, then
\* onKeyRemoved for that key, seen when it is gone, and the other keys stay
\* as they were, in their order.
C11_Remove ==
    \A p \in 1..(StorePubs + 1) :
        \A r \in { removeKey(km.m_keys, p) } :
            IF ~Holds(km.m_keys, p)
            THEN r.keys = km.m_keys /\ r.ev = <<>>
            ELSE /\ Len(r.ev) = 2
                 /\ r.ev[1].e = "onKeyPreRemove"
                 /\ r.ev[1].key = getKey(km.m_keys, p)
                 /\ r.ev[1].store = PubsOf(km.m_keys)
                 /\ \E i \in 1..Len(r.ev[1].store) : r.ev[1].store[i] = p
                 /\ r.ev[2].e = "onKeyRemoved"
                 /\ r.ev[2].key.pub = p
                 /\ r.ev[2].store = PubsOf(r.keys)
                 /\ ~Holds(r.keys, p)
                 /\ r.keys = Others(km.m_keys, p)

\* The middle one of three keys was removed: two callbacks, the first made
\* with the key in the store, and the two other keys left in their order.
C11_Witness ==
    /\ last.op = "removeKey"
    /\ last.pre = <<1, 2, 3>>
    /\ last.arg = 2
    /\ PubsOf(km.m_keys) = <<1, 3>>
    /\ Len(last.ev) = 2
    /\ last.ev[1].e = "onKeyPreRemove" /\ last.ev[1].store = <<1, 2, 3>>
    /\ last.ev[2].e = "onKeyRemoved" /\ last.ev[2].store = <<1, 3>>

\* The two frames Session::processReal answers by removing every key.
RemoveAllFrames == {BareReq("REMOVE_ALL_IDENTITIES"), BareReq("REMOVE_ALL_RSA_IDENTITIES")}

\* C12 (remove-all event order): on a store holding k1..kn, removeAllKeys
\* calls onKeyPreRemove(k1..kn) in store order with the store still full,
\* leaves the store empty, then calls onKeyRemoved for k1..kn in the same
\* order with the store empty, then onKeysCleared once and last; a
\* REMOVE_ALL_IDENTITIES frame does exactly that and replies SUCCESS, and a
\* REQUEST_IDENTITIES that follows is answered with an empty list.
C12_RemoveAllOrder ==
    \A r \in { removeAllKeys(km.m_keys) } :
        \A n \in { Len(km.m_keys) } :
            /\ r.keys = <<>>
            /\ Len(r.ev) = 2 * n + 1
            /\ \A i \in 1..n :
                   /\ r.ev[i] = [e |-> "onKeyPreRemove", key |-> km.m_keys[i],
                                 store |-> PubsOf(km.m_keys)]
                   /\ r.ev[n + i].e = "onKeyRemoved"
                   /\ r.ev[n + i].key.pub = km.m_keys[i].pub
                   /\ r.ev[n + i].store = <<>>
            /\ r.ev[2 * n + 1].e = "onKeysCleared"
            /\ r.ev[2 * n + 1].store = <<>>
            /\ \A i \in 1..(2 * n) : r.ev[i].e # "onKeysCleared"
            /\ \A s \in Sessions, req \in RemoveAllFrames :
                   \A o \in { processReal(km, sess[s], req, now, Confirming) } :
                       km.m_locked \/
                          /\ o.ev = r.ev
                          /\ o.sent = <<Success>>
                          /\ processReal(o.km, o.s, BareReq("REQUEST_IDENTITIES"),
                                         now, Confirming).sent
                                 = <<Reply("IDENTITIES_ANSWER", <<>>)>>

\* Three keys were removed at once: seven callbacks, pre-removes first.
C12_Witness ==
    /\ last.op = "removeAllKeys"
    /\ last.pre = <<2, 3, 1>>
    /\ km.m_keys = <<>>
    /\ Len(last.ev) = 7
    /\ [i \in 1..7 |-> last.ev[i].e]
           = <<"onKeyPreRemove", "onKeyPreRemove", "onKeyPreRemove",
               "onKeyRemoved", "onKeyRemoved", "onKeyRemoved", "onKeysCleared">>
    /\ [i \in 1..6 |-> last.ev[i].key.pub] = <<2, 3, 1, 2, 3, 1>>
    /\ listKeys(km.m_keys, sess[1]) = <<>>

\* The claim's expiry condition, read off the key's fields.
Due(k) == k.lifetime # 0 /\ now - k.added >= k.lifetime

\* C13 (expiry sweep): cleanupExpiredKeys removes exactly the keys with a
\* lifetime other than 0 and now - added >= lifetime, keeps every other key
\* (all keys of lifetime 0 among them) in its relative order, and calls
\* onKeyPreRemove, then onKeyRemoved, for each removed key, the first with
\* the key still in the store and the second with the key gone.
C13_ExpirySweep ==
    \A r \in { cleanupExpiredKeys(km.m_keys, now) } :
        \A gone \in { SelectSeq(km.m_keys, Due) } :
            /\ r.keys = SelectSeq(km.m_keys, LAMBDA k : ~Due(k))
            /\ \A i \in 1..Len(km.m_keys) :
                   km.m_keys[i].lifetime = 0 => Holds(r.keys, km.m_keys[i].pub)
            /\ Len(r.ev) = 2 * Len(gone)
            /\ \A j \in 1..Len(gone) :
                   /\ r.ev[2 * j - 1].e = "onKeyPreRemove"
                   /\ r.ev[2 * j - 1].key = gone[j]
                   /\ \E i \in 1..Len(r.ev[2 * j - 1].store) :
                          r.ev[2 * j - 1].store[i] = gone[j].pub
                   /\ r.ev[2 * j].e = "onKeyRemoved"
                   /\ r.ev[2 * j].key.pub = gone[j].pub
                   /\ \A i \in 1..Len(r.ev[2 * j].store) :
                          r.ev[2 * j].store[i] # gone[j].pub

\* Of three keys with lifetimes the first two, next to each other in the
\* store, were due and were swept, and the third, not yet due, was kept.
C13_Witness ==
    /\ last.op = "cleanupExpiredKeys"
    /\ last.pre = <<1, 2, 3>>
    /\ PubsOf(km.m_keys) = <<3>>
    /\ km.m_keys[1].lifetime = Lifetime
    /\ now - km.m_keys[1].added < Lifetime
    /\ Len(last.ev) = 4
    /\ [i \in 1..4 |-> last.ev[i].e]
           = <<"onKeyPreRemove", "onKeyRemoved", "onKeyPreRemove", "onKeyRemoved">>
    /\ last.ev[3].store = <<2, 3>>

\* The reply types the dispatch table gives a request type; FAILURE is also
\* what the lock gate answers to any request but UNLOCK.
AllowedReplies(type) ==
    IF type \in {"ADD_IDENTITY", "ADD_IDENTITY_CONSTRAINED", "REMOVE_IDENTITY",
                 "REMOVE_ALL_IDENTITIES", "REMOVE_ALL_RSA_IDENTITIES",
                 "LOCK", "UNLOCK", "EXTENSION"}
    THEN {"SUCCESS", "FAILURE"}
    ELSE IF type = "REQUEST_IDENTITIES" THEN {"IDENTITIES_ANSWER", "FAILURE"}
    ELSE IF type = "SIGN_REQUEST" THEN {"SIGN_RESPONSE", "FAILURE"}
    ELSE {"FAILURE"}

\* C14 (one reply per request): every complete request frame a session is
\* handed produces exactly one reply frame, of a type the dispatch table
\* gives that request (or the lock gate's FAILURE), and a request of any
\* other type produces FAILURE.
C14_OneReply ==
    last.s # 0 =>
        /\ Len(last.sent) = 1
        /\ last.sent[1].type \in AllowedReplies(last.op)

\* Frames whose handling raises an error: adds of an unknown key type, of
\* private material that does not load and of an unknown constraint
\* extension, truncated remove, sign, lock and unlock frames, and an
\* extension frame of an unregistered name.
ErrorFrames ==
    BadAdds
    \cup { RemoveReq(1, FALSE), SignReq(1, SignData("raw", "", ""), FALSE),
           PwReq("LOCK", "pw", FALSE), PwReq("UNLOCK", "pw", FALSE),
           ExtReq("unknown@example.com", "", "", "", FALSE, TRUE) }

\* Well-formed frames a client sends afterwards.
LaterFrames ==
    { SignReq(p, SignData("raw", "", ""), TRUE) : p \in Pubs }
    \cup { SignReq(2, SignData("userauth", "s1", "u1"), TRUE),
           BareReq("REQUEST_IDENTITIES") }

\* C15 (errors become FAILURE and the session survives): a request whose
\* dispatch raises a codec, parse or crypto error is answered with one
\* FAILURE frame, nothing escaping the session, and every well-formed
\* request sent afterwards gets the reply it would have got had the bad
\* request never been sent.
C15_ErrorsBecomeFailure ==
    \A s \in Sessions, bad \in ErrorFrames :
        ~LockGate(km, bad) =>
            \A o \in { processReal(km, sess[s], bad, now, Confirming) } :
                /\ o.sent = <<Failure>>
                /\ ~o.crash
                /\ \A req \in LaterFrames :
                       processReal(o.km, o.s, req, now, Confirming).sent
                           = processReal(km, sess[s], req, now, Confirming).sent

\* Whether the store holds a key of blob p that has destination constraints.
Constrained(p) == Holds(km.m_keys, p) /\ Len(getKey(km.m_keys, p).dest) > 0

\* Whether an outcome carries a signature.
Signed(o) ==
    \/ \E i \in 1..Len(o.sent) : o.sent[i].type = "SIGN_RESPONSE"
    \/ \E i \in 1..Len(o.ev) : o.ev[i].e = "onKeyUsed"

\* C16 (constrained key needs a binding): a SIGN_REQUEST for a key that has
\* at least one destination constraint, on a session whose binding list is
\* empty, is answered FAILURE, and no signature is produced.
C16_ConstrainedNeedsBinding ==
    \A s \in Sessions, req \in CfgBind.signReqs :
        (Constrained(req.pub) /\ sess[s].m_session_bindings = <<>>) =>
            \A o \in { processSignRequest(km, sess[s], req, Confirming) } :
                /\ o.sent = <<Failure>>
                /\ ~Signed(o)
                /\ ~Signed(processReal(km, sess[s], req, now, Confirming))

\* A well-formed user-auth sign request for the constrained key was refused
\* on a session that had sent no session-bind, failed or not.
C16_Witness ==
    /\ last.op = "SIGN_REQUEST"
    /\ last.arg.data.kind = "userauth"
    /\ Constrained(last.arg.pub)
    /\ sess[last.s].m_session_bindings = <<>>
    /\ ~sess[last.s].m_binding_failed
    /\ last.sent = <<Failure>>
    /\ last.ev = <<>>

\* C17 (session-id binding): a SIGN_RESPONSE for a key with destination
\* constraints is produced only if the session id in the user-auth payload
\* to be signed equals the session id of the last binding of the session's
\* chain; equality with an earlier binding's session id does not suffice.
C17_SessionIdIsLastBinding ==
    \A s \in Sessions, req \in CfgBind.signReqs :
        (Constrained(req.pub) /\ Signed(processSignRequest(km, sess[s], req, Confirming))) =>
            /\ Len(sess[s].m_session_bindings) > 0
            /\ req.data.kind = "userauth"
            /\ req.data.session_id
                   = sess[s].m_session_bindings[Len(sess[s].m_session_bindings)].session_id

\* On a chain of two bindings with session ids s1 and s2 the constrained key
\* signed a payload naming s2, and a payload naming s1 is refused there.
C17_Witness ==
    /\ last.op = "SIGN_REQUEST"
    /\ Constrained(last.arg.pub)
    /\ Len(sess[last.s].m_session_bindings) = 2
    /\ sess[last.s].m_session_bindings[1].session_id = "s1"
    /\ sess[last.s].m_session_bindings[2].session_id = "s2"
    /\ last.arg.data.session_id = "s2"
    /\ Len(last.sent) = 1 /\ last.sent[1].type = "SIGN_RESPONSE"
    /\ processSignRequest(km, sess[last.s],
                          SignReq(last.arg.pub, SignData("userauth", "s1", "u1"), TRUE),
                          Confirming).sent = <<Failure>>

\* session-bind frames of every sort: the ones clients of SpecBind send, one
\* with an empty signature and one with an empty host key.
BindFrames ==
    BindReqs
    \cup { ExtReq(SessionBindName, "hk2", "s2", "", TRUE, TRUE),
           ExtReq(SessionBindName, "", "s1", "good", FALSE, TRUE) }

\* The frame parses (it is complete and its host key is a public key) and
\* verifies (its signature, when there is one, is good).
ParsesAndVerifies(f) == f.wf /\ f.host_key # "" /\ f.sig \in {"good", ""}

\* C18 (session-bind effects): a session-bind frame that parses and verifies
\* and that the embedder does not consume appends exactly one binding
\* (host key, session id, forwarded) at the end of the chain, ORs its
\* forwarded bit into is_forwarded, replies SUCCESS and leaves
\* binding_failed as it was; a frame that fails to parse or to verify sets
\* binding_failed, empties the chain and replies FAILURE.
C18_SessionBindEffects ==
    \A s \in Sessions, f \in BindFrames, consumed \in BOOLEAN :
        \A o \in { processExtension(km, sess[s], f, Hooks(TRUE, FALSE, consumed, "min")) } :
            /\ (ParsesAndVerifies(f) /\ ~consumed) =>
                   /\ o.s.m_session_bindings
                          = sess[s].m_session_bindings
                            \o << [host_key |-> f.host_key, session_id |-> f.session_id,
                                   forwarded |-> f.forwarded] >>
                   /\ o.s.m_is_forwarded = (sess[s].m_is_forwarded \/ f.forwarded)
                   /\ o.s.m_binding_failed = sess[s].m_binding_failed
                   /\ o.sent = <<Success>>
                   /\ o.km = km
            /\ ~ParsesAndVerifies(f) =>
                   /\ o.s.m_binding_failed
                   /\ o.s.m_session_bindings = <<>>
                   /\ o.sent = <<Failure>>
                   /\ o.km = km

\* A second bind, not forwarded, was appended behind a forwarded one: the
\* chain has both in order and is_forwarded stays set.
C18_Witness ==
    /\ last.op = "EXTENSION"
    /\ ~last.h.consumed
    /\ last.sent = <<Success>>
    /\ ~last.arg.forwarded
    /\ Len(sess[last.s].m_session_bindings) = 2
    /\ sess[last.s].m_session_bindings[1] = SessionBinding("hk1", "s1", TRUE)
    /\ sess[last.s].m_session_bindings[2]
           = SessionBinding(last.arg.host_key, last.arg.session_id, FALSE)
    /\ sess[last.s].m_is_forwarded
    /\ ~sess[last.s].m_binding_failed

\* Every frame a client of SpecBind can send, and the other bind frames.
BindSpecFrames ==
    CfgBind.addReqs \cup CfgBind.signReqs \cup CfgBind.listReqs \cup BindFrames

\* C19 (binding_failed is sticky): once a session's binding_failed flag is
\* set no later request clears it, a successful session-bind included, and
\* while it is set no key with destination constraints is signed with on
\* that session (the sign path answers FAILURE) or appears in its listings.
C19_BindingFailedSticky ==
    \A s \in Sessions :
        sess[s].m_binding_failed =>
            /\ \A f \in BindSpecFrames, consumed \in BOOLEAN :
                   processReal(km, sess[s], f, now,
                               Hooks(TRUE, FALSE, consumed, "min")).s.m_binding_failed
            /\ \A req \in CfgBind.signReqs :
                   Constrained(req.pub) =>
                       /\ processSignRequest(km, sess[s], req, Confirming).sent = <<Failure>>
                       /\ ~Signed(processSignRequest(km, sess[s], req, Confirming))
                       /\ ~Signed(processReal(km, sess[s], req, now, Confirming))
            /\ \A l \in { listKeys(km.m_keys, sess[s]) } :
                   \A i \in 1..Len(l) : ~Constrained(l[i].blob)
            /\ \A o \in { processRequestIdentities(km, sess[s]) } :
                   \A i \in 1..Len(o.sent[1].body) : ~Constrained(o.sent[1].body[i].blob)

\* After a failed bind the session bound itself successfully; the flag is
\* still set, and the constrained key's request naming the bound session id
\* was refused, while the store holds that key and the listing leaves it out.
C19_Witness ==
    /\ last.op = "SIGN_REQUEST"
    /\ Constrained(last.arg.pub)
    /\ sess[last.s].m_binding_failed
    /\ sess[last.s].m_session_bindings = <<SessionBinding("hk1", "s1", FALSE)>>
    /\ last.arg.data = SignData("userauth", "s1", "u1")
    /\ last.sent = <<Failure>>
    /\ Len(km.m_keys) = 2
    /\ Len(listKeys(km.m_keys, sess[last.s])) = 1

\* C20 as stated (refusal after a bind failure): on a session whose
\* session-bind failed, every later SIGN_REQUEST is answered FAILURE.
C20_AllSignsRefusedAfterBindFailure ==
    \A s \in Sessions :
        sess[s].m_binding_failed =>
            \A req \in CfgBind.signReqs :
                processSignRequest(km, sess[s], req, Confirming).sent = <<Failure>>

\* C20 as amended: on a session whose session-bind failed, every later
\* SIGN_REQUEST for a key that has destination constraints is refused by the
\* sign path with FAILURE and yields no signature, whatever the session
\* bound afterwards; a request for a stored key without destination
\* constraints is answered with SIGN_RESPONSE as on any other session.
C20_ConstrainedSignsRefusedAfterBindFailure ==
    \A s \in Sessions :
        sess[s].m_binding_failed =>
            \A req \in CfgBind.signReqs :
                \A o \in { processSignRequest(km, sess[s], req, Confirming) } :
                    /\ Constrained(req.pub) => (o.sent = <<Failure>> /\ ~Signed(o))
                    /\ (Holds(km.m_keys, req.pub) /\ ~Constrained(req.pub)) =>
                           /\ Len(o.sent) = 1
                           /\ o.sent[1].type = "SIGN_RESPONSE"
                           /\ o.sent = processSignRequest(
                                           km, [sess[s] EXCEPT !.m_binding_failed = FALSE],
                                           req, Confirming).sent
                    /\ ~Holds(km.m_keys, req.pub) => o.sent = <<Failure>>

\* On a session whose bind failed and that bound itself again, the key
\* without constraints signed, and the constrained key in the same store is
\* refused for the bound session id.
C20_Witness ==
    /\ last.op = "SIGN_REQUEST"
    /\ sess[last.s].m_binding_failed
    /\ Len(sess[last.s].m_session_bindings) = 1
    /\ Holds(km.m_keys, last.arg.pub) /\ ~Constrained(last.arg.pub)
    /\ Len(last.sent) = 1 /\ last.sent[1].type = "SIGN_RESPONSE"
    /\ Constrained(2)
    /\ processSignRequest(km, sess[last.s],
                          SignReq(2, SignData("userauth", "s1", "u1"), TRUE),
                          Confirming).sent = <<Failure>>
    /\ sess[last.s].m_session_bindings[1].session_id = "s1"

\* identity_permitted(session, user = "") for the key at position i.
PermittedToList(s, i) == permitted(km.m_keys[i], sess[s], "", NoMatchInfo).ok

\* The positions of the store whose key may be listed on session s.
Listable(s) == { i \in 1..Len(km.m_keys) : PermittedToList(s, i) }

\* C21 (listing filter): the IDENTITIES_ANSWER to a REQUEST_IDENTITIES holds
\* exactly the keys of the store for which identity_permitted(session, "")
\* holds, each once, in the order of the store, with blob and comment; keys
\* without destination constraints are always in it.
C21_ListingFilter ==
    \A s \in Sessions :
        \A o \in { processRequestIdentities(km, sess[s]) } :
            /\ Len(o.sent) = 1
            /\ o.sent[1].type = "IDENTITIES_ANSWER"
            /\ \A body \in { o.sent[1].body } :
                   /\ Len(body) = Cardinality(Listable(s))
                   /\ \A i \in 1..Len(km.m_keys) :
                          PermittedToList(s, i) <=>
                              \E j \in 1..Len(body) : body[j].blob = km.m_keys[i].pub
                   /\ \A j \in 1..Len(body) :
                          /\ body[j].comment = getKey(km.m_keys, body[j].blob).comment
                          /\ \A j2 \in 1..Len(body) :
                                 j < j2 => findKey(km.m_keys, body[j].blob)
                                               < findKey(km.m_keys, body[j2].blob)
                   /\ \A i \in 1..Len(km.m_keys) :
                          Len(km.m_keys[i].dest) = 0 =>
                              \E j \in 1..Len(body) : body[j].blob = km.m_keys[i].pub

\* On a session bound to h2 alone, which the constrained key does not allow
\* as a first hop, the list request was answered with the plain key only,
\* though the constrained key stands before it in the store.
C21_Witness ==
    /\ last.op = "REQUEST_IDENTITIES"
    /\ PubsOf(km.m_keys) = <<2, 1>>
    /\ Constrained(2)
    /\ ~sess[last.s].m_binding_failed
    /\ sess[last.s].m_session_bindings = <<SessionBinding("hk2", "s2", FALSE)>>
    /\ Len(last.sent) = 1
    /\ last.sent[1].type = "IDENTITIES_ANSWER"
    /\ Len(last.sent[1].body) = 1
    /\ last.sent[1].body[1].blob = 1

\* The hooks of a sign request under the answers h, and the same request
\* with confirmRequest answering yes.
SignHooks(h) == Hooks(h.confirm, h.requires, FALSE, "min")
SignHooksYes(h) == Hooks(TRUE, h.requires, FALSE, "min")
Emitted(o, name) == \E i \in 1..Len(o.ev) : o.ev[i].e = name

\* C22 (confirmation gates signing): for a key whose confirm flag is set or
\* for which requiresConfirmation answers true, a SIGN_RESPONSE is sent only
\* if confirmRequest answered true for the request; when it answers false
\* the key does not sign, the reply is FAILURE, and onKeyDeclined is emitted
\* for every request that would have been signed on a yes; onKeyUsed and
\* onKeyDeclined are never both emitted for one request.
C22_ConfirmationGatesSigning ==
    \A s \in Sessions, req \in CfgConfirm.signReqs, h \in ConfirmAnswers :
        \A key \in { getKey(km.m_keys, req.pub) } :
        \A o \in { processSignRequest(km, sess[s], req, SignHooks(h)) } :
        \A yes \in { processSignRequest(km, sess[s], req, SignHooksYes(h)) } :
            /\ ~(Emitted(o, "onKeyUsed") /\ Emitted(o, "onKeyDeclined"))
            /\ (key # NoKey /\ (key.confirm \/ h.requires)) =>
                   /\ Signed(o) => h.confirm
                   /\ ~h.confirm =>
                          /\ ~Signed(o)
                          /\ o.sent = <<Failure>>
                          /\ o.km = km
                          /\ Signs(yes) => o.ev = <<Ev("onKeyDeclined", key, km.m_keys)>>
            /\ Emitted(o, "onKeyDeclined") =>
                   key # NoKey /\ (key.confirm \/ h.requires) /\ ~h.confirm

\* A key without the confirm flag was asked for on a session whose
\* requiresConfirmation hook said yes and whose confirmRequest said no: the
\* request was declined and answered FAILURE.
C22_Witness ==
    /\ last.op = "SIGN_REQUEST"
    /\ Holds(km.m_keys, last.arg.pub)
    /\ ~getKey(km.m_keys, last.arg.pub).confirm
    /\ last.h.requires /\ ~last.h.confirm
    /\ last.sent = <<Failure>>
    /\ Len(last.ev) = 1 /\ last.ev[1].e = "onKeyDeclined"

\* C23 (replies in request order): within a session the replies are sent in
\* the order in which the requests were handed to process, also when an
\* earlier request is a SIGN_REQUEST or REQUEST_IDENTITIES whose worker has
\* not replied yet.
C23_RepliesInRequestOrder ==
    \A s \in AsyncSessions :
        \A i \in 1..Len(sess[s].wire), j \in 1..Len(sess[s].wire) :
            i < j => sess[s].wire[i] < sess[s].wire[j]

\* A listKeys call of session s is under way, between two rounds of its loop.
Listing(ss, s) == ss[s].selection_job.pc = "listing"

\* C24 (KeyManager operations are mutually exclusive): no operation of the
\* KeyManager takes effect while another one is under way, so a listKeys
\* call sees one state of the store from its first round to its last, and
\* walks it without harm to the process.
C24_OperationsExclusive ==
    [][\A s \in AsyncSessions :
          (Listing(sess, s) /\ Listing(sess', s)) =>
              /\ km'.m_keys = km.m_keys
              /\ crashed' = crashed]_vars

\* The positions of hkeys with a non-CA entry equal to key.
EqualEntries(hkeys, key) ==
    { i \in 1..Len(hkeys) : ~hkeys[i].is_ca /\ hkeys[i].key = key }

\* p holds the entries of q in some order.
IsPermutation(p, q) ==
    /\ Len(p) = Len(q)
    /\ \E f \in [1..Len(p) -> 1..Len(p)] :
           /\ \A i, j \in 1..Len(p) : i # j => f[i] # f[j]
           /\ \A i \in 1..Len(p) : p[i] = q[f[i]]

\* C25 as stated (hop match): a hop descriptor matches a key blob if and
\* only if at least one entry (key, is_ca = false) of its key list equals
\* the blob.
C25_HopMatchIffSomeEntryEqual ==
    last.op = "matchesKey" =>
        (last.sent[1] <=> EqualEntries(last.arg.hop.keys, last.arg.key) # {})

\* C25 as amended: a hop descriptor matches a key blob if and only if an
\* entry (key, is_ca = false) of its key list equals the blob and no entry
\* at or before it has an empty key; CA entries never produce a match, and
\* for a list without empty keys the result is the same for every order of
\* its entries.
C25_HopMatch ==
    last.op = "matchesKey" =>
        \A hkeys \in { last.arg.hop.keys } :
            /\ last.sent[1] <=>
                   \E i \in EqualEntries(hkeys, last.arg.key) :
                       \A j \in 1..i : hkeys[j].key # ""
            /\ (\A i \in 1..Len(hkeys) : hkeys[i].is_ca) => ~last.sent[1]
            /\ (\A i \in 1..Len(hkeys) : hkeys[i].key # "") =>
                   \A p \in [1..Len(hkeys) -> { hkeys[i] : i \in 1..Len(hkeys) }] :
                       IsPermutation(p, hkeys) =>
                           matchesKey(Hop("", "h1", p), last.arg.key) = last.sent[1]

\* The hop lists hk1 behind an entry with an empty key: hk1 is not matched,
\* while the same hop with the two entries in the other order matches it.
C25_Witness ==
    /\ last.op = "matchesKey"
    /\ last.arg.hop.keys = <<HopKey("", FALSE), HopKey("hk1", FALSE)>>
    /\ last.arg.key = "hk1"
    /\ last.sent = <<FALSE>>
    /\ matchesKey(Hop("", "h1", <<HopKey("hk1", FALSE), HopKey("", FALSE)>>), "hk1")

\* C26 (single-constraint match): a constraint matches (from_key, to_key,
\* user) exactly when: with an empty from_key its from-hop has an empty
\* hostname and an empty key list, and with a non-empty from_key its
\* from-hop matches from_key; a non-empty to_key is matched by its to-hop;
\* and to-hop.user and user, when both are non-empty, are equal (an empty
\* value on either side matches any user).
C26_ConstraintMatch ==
    last.op = "matches" =>
        \A c \in { last.arg.c } :
            /\ last.sent[1] <=>
                   /\ last.arg.from_key = "" => (c.from.hostname = "" /\ c.from.keys = <<>>)
                   /\ last.arg.from_key # "" => matchesKey(c.from, last.arg.from_key)
                   /\ last.arg.to_key # "" => matchesKey(c.to, last.arg.to_key)
                   /\ (c.to.user # "" /\ last.arg.user # "") => c.to.user = last.arg.user
            /\ (last.arg.user = "" \/ c.to.user = "") =>
                   \A u \in {"", "u1", "u2"} :
                       (u = "" \/ c.to.user = "") =>
                           matches(c, last.arg.from_key, last.arg.to_key, u) = last.sent[1]

\* A constraint whose to-hop names user u1 was asked with an empty user, an
\* empty from_key and the to-hop's second key: it matches, and the same
\* question with user u2 does not.
C26_Witness ==
    /\ last.op = "matches"
    /\ last.arg.c = Constraint(Hop("", "", <<>>),
                               Hop("u1", "h1", <<HopKey("hk2", FALSE), HopKey("hk1", FALSE)>>))
    /\ last.arg.from_key = "" /\ last.arg.to_key = "hk1" /\ last.arg.user = ""
    /\ last.sent = <<TRUE>>
    /\ ~matches(last.arg.c, "", "hk1", "u2")

\* C27 (message round trip): decoding the encoded frame of an
\* AddIdentityMessage yields a message equal to the original; an
\* ADD_IDENTITY_CONSTRAINED message carrying confirm, a lifetime and a
\* restrict-destination-v00 extension decodes back with the same confirm
\* flag, lifetime and destination constraints.
C27_AddIdentityRoundTrip ==
    last.op = "AddIdentityMessage::serialize" =>
        /\ last.sent[2].ok
        /\ last.sent[2].msg = last.arg

\* A minimal big-endian byte string: no leading zero byte (zero is empty).
IsMinimal(n) == n = <<>> \/ n[1] # 0

\* C28 (mpint round trip): for every non-negative integer given as its
\* minimal big-endian byte string n, readMPInt(writeMPInt(n)) = n; the
\* encoding is the length word followed by n, with a single 0x00 byte
\* between them exactly when the top bit of n's first byte is 1; the decoder
\* strips exactly that byte; the empty value encodes to 00 00 00 00.
C28_MPIntRoundTrip ==
    (last.op = "writeMPInt" /\ IsMinimal(last.arg)) =>
        \A n \in { last.arg } :
        \A enc \in { last.sent[1] } :
        \A pad \in { IF n # <<>> /\ n[1] >= 128 THEN <<0>> ELSE <<>> } :
            /\ last.sent[2] = [ok |-> TRUE, value |-> n]
            /\ Len(enc) = 4 + Len(pad) + Len(n)
            /\ SubSeq(enc, 1, 4) = <<0, 0, 0, Len(pad) + Len(n)>>
            /\ SubSeq(enc, 5, Len(enc)) = pad \o n
            /\ Len(last.sent[2].value) = Len(enc) - 4 - Len(pad)
            /\ n = <<>> => enc = <<0, 0, 0, 0>>

\* The integer 0x80FF was written with the 0x00 byte in front of it and read
\* back without it; 0x7F was written and read back as it is.
C28_Witness ==
    /\ last.op = "writeMPInt"
    /\ last.arg = <<128, 255>>
    /\ last.sent[1] = <<0, 0, 0, 3, 0, 128, 255>>
    /\ last.sent[2].value = <<128, 255>>
    /\ writeMPInt(<<127>>) = <<0, 0, 0, 1, 127>>
    /\ readMPInt(<<0, 0, 0, 1, 127>>).value = <<127>>

\* C29 (identity_permitted, early decisions): for any session and user, a
\* key with no destination constraints is permitted whatever the session's
\* bindings and binding_failed flag; a key with constraints is refused when
\* binding_failed is set; a key with constraints on a session with
\* binding_failed clear and an empty binding chain is permitted.
C29_PermittedEarlyDecisions ==
    last.op = "permitted" =>
        \A k \in { last.arg.key } : \A s \in { last.arg.s } :
            /\ Len(k.dest) = 0 => last.sent[1]
            /\ (Len(k.dest) > 0 /\ s.m_binding_failed) => ~last.sent[1]
            /\ (Len(k.dest) > 0 /\ ~s.m_binding_failed /\ s.m_session_bindings = <<>>) =>
                   last.sent[1]

\* A key without constraints was permitted on a session whose bind failed
\* and whose chain holds a binding with an empty host key, where a key with
\* constraints is refused; and that key is permitted on a fresh session.
C29_Witness ==
    /\ last.op = "permitted"
    /\ last.arg.key.dest = <<>>
    /\ last.arg.s.m_binding_failed
    /\ last.arg.s.m_session_bindings = <<SessionBinding("", "s1", FALSE)>>
    /\ last.sent = <<TRUE>>
    /\ ~permitted(KeyWithDest(Dest1), last.arg.s, last.arg.user, NoMatchInfo).ok
    /\ permitted(KeyWithDest(Dest1), NewSession, last.arg.user, NoMatchInfo).ok

\* C30 (forwarding-flag rules of the chain walk): a key with destination
\* constraints is refused whenever some binding of the session has an empty
\* host key, whenever a binding that is not the last one has forwarded =
\* false, and whenever the last binding has forwarded = true while the
\* supplied user is non-empty.
C30_ChainWalkRefusals ==
    (last.op = "permitted" /\ Len(last.arg.key.dest) > 0) =>
        \A b \in { last.arg.s.m_session_bindings } :
            /\ (\E i \in 1..Len(b) : b[i].host_key = "") => ~last.sent[1]
            /\ (\E i \in 1..(Len(b) - 1) : ~b[i].forwarded) => ~last.sent[1]
            /\ (Len(b) > 0 /\ b[Len(b)].forwarded /\ last.arg.user # "") => ~last.sent[1]

\* The key allows any -> h1 and h1 -> h2; on the chain h1, h2 whose first
\* binding is not forwarded it was refused for user u1, and with the first
\* binding forwarded it is permitted.
C30_Witness ==
    /\ last.op = "permitted"
    /\ last.arg.key.dest = Dest2
    /\ ~last.arg.s.m_binding_failed
    /\ last.arg.s.m_session_bindings
           = <<SessionBinding("hk1", "s1", FALSE), SessionBinding("hk2", "s1", FALSE)>>
    /\ last.arg.user = "u1"
    /\ last.sent = <<FALSE>>
    /\ permitted(last.arg.key,
                 SessionWithChain(<<SessionBinding("hk1", "s1", TRUE),
                                    SessionBinding("hk2", "s1", FALSE)>>, FALSE),
                 "u1", NoMatchInfo).ok

\* Some constraint of dest matches (from_key, to_key, user).
SomeMatch(dest, from_key, to_key, user) ==
    \E j \in 1..Len(dest) : matches(dest[j], from_key, to_key, user)

\* C31 (chain walk threading): a key with constraints is permitted on a
\* non-empty chain b1..bn only if for every i some constraint matches
\* (from_key, bi.host_key, u_i), with from_key empty for i = 1 and
\* b(i-1).host_key otherwise, and u_i the supplied user for i = n and empty
\* otherwise; and, when bn is forwarded and the user is empty, only if some
\* constraint also matches (bn.host_key, empty, "").
C31_ChainWalkThreading ==
    (last.op = "permitted" /\ Len(last.arg.key.dest) > 0
       /\ Len(last.arg.s.m_session_bindings) > 0 /\ last.sent[1]) =>
        \A b \in { last.arg.s.m_session_bindings } : \A dest \in { last.arg.key.dest } :
            /\ \A i \in 1..Len(b) :
                   SomeMatch(dest,
                             IF i = 1 THEN "" ELSE b[i - 1].host_key,
                             b[i].host_key,
                             IF i = Len(b) THEN last.arg.user ELSE "")
            /\ (b[Len(b)].forwarded /\ last.arg.user = "") =>
                   SomeMatch(dest, b[Len(b)].host_key, "", "")

\* The key allows any -> h1 and h1 -> h2 and was permitted for user u1 on
\* the chain h1 (forwarded), h2; on the chain h1 (forwarded), h1, whose
\* second hop no constraint allows from h1, it is refused, and on the single
\* forwarded binding h2 with no user it is refused as well.
C31_Witness ==
    /\ last.op = "permitted"
    /\ last.arg.key.dest = Dest2
    /\ last.arg.s.m_session_bindings
           = <<SessionBinding("hk1", "s1", TRUE), SessionBinding("hk2", "s1", FALSE)>>
    /\ last.arg.user = "u1"
    /\ last.sent = <<TRUE>>
    /\ ~permitted(last.arg.key,
                  SessionWithChain(<<SessionBinding("hk1", "s1", TRUE),
                                     SessionBinding("hk1", "s1", FALSE)>>, FALSE),
                  "u1", NoMatchInfo).ok
    /\ ~permitted(last.arg.key,
                  SessionWithChain(<<SessionBinding("hk2", "s1", TRUE)>>, FALSE),
                  "", NoMatchInfo).ok

\* The sequence a is a prefix of the sequence b.
IsPrefix(a, b) == Len(a) <= Len(b) /\ SubSeq(b, 1, Len(a)) = a

\* C32 as stated (append-only bindings): across any request, the bindings
\* list after the request has the list before the request as a prefix.
C32_BindingsAppendOnly ==
    [][\A s \in Sessions :
           IsPrefix(sess[s].m_session_bindings, sess'[s].m_session_bindings)]_vars

\* C32 as amended: across any request, the bindings list after the request
\* has the list before it as a prefix, unless the request is an EXTENSION
\* frame answered FAILURE that set binding_failed, after which the list is
\* empty.
C32_BindingsAppendOrEmptied ==
    [][\A s \in Sessions :
           \/ IsPrefix(sess[s].m_session_bindings, sess'[s].m_session_bindings)
           \/ /\ sess'[s].m_session_bindings = <<>>
              /\ sess'[s].m_binding_failed
              /\ last'.op = "EXTENSION"
              /\ last'.s = s
              /\ last'.sent = <<Failure>>]_vars

\* A bind was appended behind another on a session whose chain an earlier
\* failed bind had emptied.
C32_Witness ==
    /\ last.op = "EXTENSION"
    /\ last.sent = <<Success>>
    /\ sess[last.s].m_binding_failed
    /\ sess[last.s].m_session_bindings
           = <<SessionBinding("hk1", "s1", TRUE), SessionBinding("hk2", "s2", FALSE)>>

\* Complete EXTENSION frames of every kind: session-binds that verify and
\* that do not, and a frame whose extension name nobody registered.
NamedExtensionFrames ==
    { f \in BindFrames : f.wf } \cup ExtReqs(BOOLEAN)

\* The embedder's hook answers true to whatever it is shown.
Consuming == Hooks(TRUE, FALSE, TRUE, "min")

\* C33 (embedder first on the extension path): for every EXTENSION request,
\* whatever its extension name, the embedder's hook is asked before any
\* built-in handling, so that when the hook answers true the reply is
\* SUCCESS and the session's bindings and binding_failed are unchanged.
C33_EmbedderFirst ==
    \A s \in Sessions, f \in NamedExtensionFrames :
        \A o \in { processReal(km, sess[s], f, now, Consuming) } :
            /\ o.sent = <<Success>>
            /\ o.s.m_session_bindings = sess[s].m_session_bindings
            /\ o.s.m_binding_failed = sess[s].m_binding_failed

\* The frame of type op handed last to session s is not the one its worker
\* job is serving: it came in while the previous one had not finished.
HandedWhileBusy(s, op, job) ==
    /\ last.s = s
    /\ last.op = op
    /\ last.sent = <<>>
    /\ job.pc # "idle"
    /\ job.n # sess[s].handed

\* C34 (single-slot suspension): a SIGN_REQUEST (or REQUEST_IDENTITIES)
\* handed to process while the previous one of the same kind has not
\* finished is reported as an error by process, whatever the interleaving of
\* the reader and the worker, and is neither run nor queued.
C34_SingleSlotSuspension ==
    \A s \in AsyncSessions :
        /\ HandedWhileBusy(s, "SIGN_REQUEST", sess[s].confirmation_job) =>
               last.threw /\ ~crashed
        /\ HandedWhileBusy(s, "REQUEST_IDENTITIES", sess[s].selection_job) =>
               last.threw /\ ~crashed

\* C35 (reassembly): no parse is attempted on fewer than 5 bytes; a frame
\* delivered in several chunks yields the same replies and the same state
\* change as the frame delivered in one chunk; and the buffer is empty after
\* a successful parse.
C35_Reassembly ==
    (last.op = "process"
       /\ (last.arg.i = Len(last.arg.lengths) \/ last.sent[1].threw)) =>
        \A chunked \in { last.sent[1] } :
            \A whole \in { After(Connected(TwoKeys),
                                 process(TwoKeys, NewSession, <<>>, last.arg.frame, now)) } :
                /\ \A i \in 1..Len(chunked.parsed) : chunked.parsed[i] >= 5
                /\ ~chunked.threw
                /\ chunked.sent = whole.sent
                /\ chunked.km = whole.km
                /\ chunked.s = whole.s
                /\ chunked.buffer = <<>>

\* The step just taken was an add that failed: addKey threw, or an
\* ADD_IDENTITY / ADD_IDENTITY_CONSTRAINED frame was answered FAILURE.
FailedAdd ==
    \/ last'.op = "addKey" /\ last'.threw
    \/ last'.op \in {"ADD_IDENTITY", "ADD_IDENTITY_CONSTRAINED"}
         /\ last'.sent = <<Failure>>

\* C36 (failed add is atomic): when addKey or an ADD_IDENTITY /
\* ADD_IDENTITY_CONSTRAINED request fails, the key store is exactly what it
\* was before the request, also when it already held a key with the same
\* public blob, and no observer event is emitted.
C36_FailedAddAtomic ==
    [][FailedAdd => km'.m_keys = km.m_keys /\ last'.ev = <<>>]_vars

\* C37 (no signature after removal): when the key of a SIGN_REQUEST that is
\* suspended in confirmRequest is removed by another session, the suspended
\* request does not emit a SIGN_RESPONSE once the confirmation returns: a
\* SIGN_RESPONSE is only sent for a key the store holds when it is sent.
C37_NoSignatureAfterRemoval ==
    \A s \in AsyncSessions :
        (last.op = "SIGN_REQUEST" /\ last.s = s /\ Len(last.sent) = 1
           /\ last.sent[1].type = "SIGN_RESPONSE") =>
            \E i \in 1..Len(km.m_keys) : km.m_keys[i].pub = last.arg.pub

\* C38 (expired keys are unusable): a key with lifetime # 0 whose lifetime
\* has elapsed never yields a SIGN_RESPONSE and never appears in an
\* IDENTITIES_ANSWER, also when cleanupExpiredKeys has not run since.
C38_ExpiredKeysUnusable ==
    \A s \in Sessions : \A i \in 1..Len(km.m_keys) :
        expired(km.m_keys[i], now) =>
            /\ ~Signs(processSignRequest(km, sess[s],
                                         SignReq(km.m_keys[i].pub, SignData("raw", "", ""), TRUE),
                                         Confirming))
            /\ \A l \in { listKeys(km.m_keys, sess[s]) } :
                   \A j \in 1..Len(l) : l[j].blob # km.m_keys[i].pub

\* C39 (only session-bind failures poison a session): an EXTENSION frame
\* whose extension name is not session-bind@openssh.com, registered or not,
\* is answered without changing binding_failed or the binding chain.
C39_OnlySessionBindPoisons ==
    \A s \in Sessions, consumed \in BOOLEAN :
        \A f \in { g \in NamedExtensionFrames : g.name # SessionBindName } :
            \A o \in { processReal(km, sess[s], f, now, Hooks(TRUE, FALSE, consumed, "min")) } :
                /\ Len(o.sent) = 1
                /\ o.s.m_binding_failed = sess[s].m_binding_failed
                /\ o.s.m_session_bindings = sess[s].m_session_bindings

\* C40 (repeated sign and list requests are served): with either setting of
\* m_async_operation, a SIGN_REQUEST or REQUEST_IDENTITIES handed to process
\* after the replies to all earlier requests were sent is dispatched and
\* answered; the thread handle a finished request left behind does not stop
\* the next one from starting.
C40_RepeatedRequestsServed ==
    \A s \in Sessions : \A req \in CfgMain.signReqs \cup CfgMain.listReqs :
        ~crashed =>
            \A o \in { processReal(km, sess[s], req, now, Confirming) } :
                /\ ~o.crash
                /\ Len(o.sent) = 1

====
